---- MODULE Spec2Model ----
(***************************************************************************)
(* Model of the prixe-api repository: the documented client-side patterns  *)
(* (PrixeAPIClient, exponentialBackoff, CircuitBreaker) and the documented *)
(* contract of the Prixe service (REST, pay-per-call, WebSocket).          *)
(***************************************************************************)
EXTENDS Integers, Sequences, FiniteSets, TLC

\* ------------------------------------------------------------------ bounds

\* largest `retries` argument tried for getLastSold
MaxRetries == 3
\* largest `maxRetries` argument tried for exponentialBackoff
MaxBackoffRetries == 7
\* longest Retry-After header value, in characters
MaxHeaderLen == 2
\* execute calls made on the circuit breaker
MaxExecutes == 4
\* largest failureThreshold a breaker is constructed with
MaxThreshold == 2
\* largest timeout a breaker is constructed with, in clock ticks
MaxTimeout == 2
\* last clock tick
MaxTime == 3
\* Requests/Hour of the Free plan (100), scaled down
FreeLimit == 1
\* requests/hour per IP (3,000), scaled down
IpLimit == 2
\* Requests/Hour of the Enterprise plan (10,000), scaled down
EnterpriseLimit == 3
\* pay-per-call requests after which the x402-fetch client starts no new call
MaxPaidRequests == 3
\* X-RateLimit-Window / Retry-After of the example 429 response, in seconds
WindowSeconds == 3600
\* /ws/liveprice connections established, one after the other
MaxConnections == 2
\* subscribe/unsubscribe frames the client sends on one connection
MaxFrames == 2
\* ticks of the price stream on one connection
MaxUpdates == 2
\* RequestQueue.add calls made
MaxAdds == 5
\* getCachedPrice calls made
MaxPriceCalls == 3
\* largest ttlSeconds a ResponseCache is constructed with
MaxTtlSeconds == 1
\* steps of 500 ms the cache's clock makes
MaxCacheSteps == 4

\* ------------------------------------------------------------ shared values

\* the value of an absent header (Headers.get returns null): no digit string
Null == <<-1>>
\* the "no wait" mark in an attempt's record
NoWait == -1

RECURSIVE Pow2(_)
\* Math.pow(2, n) for the small non-negative n the model reaches
Pow2(n) == IF n <= 0 THEN 1 ELSE 2 * Pow2(n - 1)

Min(a, b) == IF a <= b THEN a ELSE b

\* the characters a numeric Retry-After value is written with
Digits == {0, 2}

\* header values: null (absent), "" (empty) or a string of digits
HeaderValues ==
  {Null} \cup UNION {[1..n -> Digits] : n \in 0..MaxHeaderLen}

RECURSIVE ToNumber(_)
\* JavaScript's ToNumber on a string of decimal digits ("" is 0)
ToNumber(s) ==
  IF Len(s) = 0 THEN 0
  ELSE 10 * ToNumber(SubSeq(s, 1, Len(s) - 1)) + s[Len(s)]

\* ------------------------------------------------- PrixeAPIClient (JavaScript)

\* HTTP statuses the service answers with, 0 standing for a rejected fetch
Statuses == {200, 400, 401, 404, 429, 500, 502, 503}

\* what one fetch can produce: a rejected fetch, or a response with a status,
\* a Retry-After header and a body that parses as JSON or not
Responses ==
  [kind : {"reject"}, status : {0}, retryAfter : {Null}, json : {FALSE}]
    \cup [kind : {"response"}, status : Statuses \ {429}, retryAfter : {Null},
          json : {TRUE}]
    \cup [kind : {"response"}, status : {200}, retryAfter : {Null},
          json : {FALSE}]
    \cup [kind : {"response"}, status : {429}, retryAfter : HeaderValues,
          json : {TRUE}]

\* response.ok
ok(resp) == resp.status >= 200 /\ resp.status <= 299

\* `response.headers.get('Retry-After') || 60`: null and "" are falsy
retryAfterOr60(h) == IF h = Null \/ h = <<>> THEN 60 ELSE ToNumber(h)

\* handleError: the error thrown for a response that is not ok
handleError(resp) ==
  CASE resp.status = 400 -> [cls |-> "ValidationError", status |-> 400, retryAfter |-> 0]
    [] resp.status = 401 -> [cls |-> "AuthenticationError", status |-> 401, retryAfter |-> 0]
    [] resp.status = 429 ->
         [cls |-> "RateLimitError", status |-> 429,
          retryAfter |-> retryAfterOr60(resp.retryAfter)]
    [] resp.status = 500 -> [cls |-> "ServerError", status |-> 500, retryAfter |-> 0]
    [] OTHER -> [cls |-> "APIError", status |-> resp.status, retryAfter |-> 0]

NoError == [cls |-> "none", status |-> 200, retryAfter |-> 0]

\* makeRequest: the error it throws, or NoError when it returns the body
makeRequest(resp) ==
  IF resp.kind = "reject" THEN [cls |-> "APIError", status |-> 0, retryAfter |-> 0]
  ELSE IF ~ok(resp) THEN handleError(resp)
  ELSE IF ~resp.json THEN [cls |-> "APIError", status |-> 0, retryAfter |-> 0]
  ELSE NoError

VARIABLES
  gl_pc,        \* idle | attempting | sleeping | returned | thrown
  gl_retries,   \* the `retries` argument
  gl_attempt,   \* the loop variable `attempt`
  gl_requests,  \* requests sent by this call
  gl_hist,      \* per request: the response, the error raised, the wait
  gl_thrown     \* the error the call threw

glVars == <<gl_pc, gl_retries, gl_attempt, gl_requests, gl_hist, gl_thrown>>

glInit ==
  /\ gl_pc = "idle"
  /\ gl_retries = 0
  /\ gl_attempt = 0
  /\ gl_requests = 0
  /\ gl_hist = <<>>
  /\ gl_thrown = NoError

\* an off-by-one retry guard: `attempt <= retries`
getLastSoldWait_offByOne(e, a, retries) ==
  IF e.cls = "RateLimitError" /\ a <= retries THEN e.retryAfter * 1000
  ELSE IF e.cls = "ServerError" /\ a <= retries THEN Pow2(a) * 1000
  ELSE NoWait

\* the catch clause of getLastSold: the wait it makes after error e of attempt
\* a (in ms), NoWait when it rethrows e
getLastSoldWait(e, a, retries) ==
  IF e.cls = "RateLimitError" /\ a < retries THEN e.retryAfter * 1000
  ELSE IF e.cls = "ServerError" /\ a < retries THEN Pow2(a) * 1000
  ELSE NoWait

\* getLastSold(ticker, retries): entering the for loop
getLastSold_call ==
  /\ gl_pc \in {"idle", "returned", "thrown"}
  /\ \E r \in 0..MaxRetries :
       /\ gl_retries' = r
       /\ gl_pc' = IF 1 <= r THEN "attempting" ELSE "returned"
  /\ gl_attempt' = 1
  /\ gl_requests' = 0
  /\ gl_hist' = <<>>
  /\ gl_thrown' = NoError

\* one pass of the loop body: makeRequest and the catch clause
getLastSold_attempt ==
  /\ gl_pc = "attempting"
  /\ \E resp \in Responses :
       LET e == makeRequest(resp)
           w == IF e = NoError THEN NoWait
                ELSE getLastSoldWait(e, gl_attempt, gl_retries)
       IN /\ gl_requests' = gl_requests + 1
          /\ gl_hist' = Append(gl_hist, [resp |-> resp, err |-> e, wait |-> w])
          /\ IF e = NoError
               THEN gl_pc' = "returned" /\ gl_thrown' = gl_thrown
             ELSE IF w # NoWait
               THEN gl_pc' = "sleeping" /\ gl_thrown' = gl_thrown
             ELSE gl_pc' = "thrown" /\ gl_thrown' = e
  /\ UNCHANGED <<gl_retries, gl_attempt>>

\* the sleep timer fires: `continue`, attempt++ and the loop test
getLastSold_wake ==
  /\ gl_pc = "sleeping"
  /\ gl_attempt' = gl_attempt + 1
  /\ gl_pc' = IF gl_attempt + 1 <= gl_retries THEN "attempting" ELSE "returned"
  /\ UNCHANGED <<gl_retries, gl_requests, gl_hist, gl_thrown>>

\* ---------------------------------- PrixeAPIClient (Python) beside JavaScript
\* Both documented clients are run against a service that answers every
\* attempt with the same non-2xx status.

\* the exception _handle_response raises for a response that is not ok;
\* int() of an empty Retry-After value raises ValueError
py_handle_response(status, header) ==
  IF status = 400 THEN "ValidationError"
  ELSE IF status = 401 THEN "AuthenticationError"
  ELSE IF status = 429
    THEN IF header = <<>> THEN "ValueError" ELSE "RateLimitError"
  ELSE IF status >= 500 THEN "ServerError"
  ELSE "PrixeAPIError"

\* the except clauses of get_last_sold: sleep and `continue`, or raise
py_continues(cls, attempt, max_retries) ==
  cls \in {"RateLimitError", "ServerError"} /\ attempt < max_retries

\* the response the service gives on every attempt
FixedResponses ==
  {r \in Responses : r.kind = "response" /\ ~ok(r) /\ r.retryAfter # <<>>}

VARIABLES
  pa_resp,   \* the response of every attempt
  pa_n,      \* retries (JavaScript) and max_retries (Python)
  pa_js,     \* getLastSold: pc, attempt and requests sent
  pa_py      \* get_last_sold: pc, attempt and requests sent

paVars == <<pa_resp, pa_n, pa_js, pa_py>>

paInit ==
  /\ pa_resp = [kind |-> "response", status |-> 400, retryAfter |-> Null,
                json |-> TRUE]
  /\ pa_n = 0
  /\ pa_js = [pc |-> "idle", attempt |-> 0, requests |-> 0]
  /\ pa_py = [pc |-> "idle", attempt |-> 0, requests |-> 0]

\* both clients are called with the same n against the same service
parity_call ==
  /\ pa_js.pc \in {"idle", "thrown"}
  /\ pa_py.pc \in {"idle", "thrown"}
  /\ \E r \in FixedResponses, n \in 1..MaxRetries :
       /\ pa_resp' = r
       /\ pa_n' = n
  /\ pa_js' = [pc |-> "attempting", attempt |-> 1, requests |-> 0]
  /\ pa_py' = [pc |-> "attempting", attempt |-> 1, requests |-> 0]

\* getLastSold: one pass of the for loop, with its sleep
parity_getLastSold_attempt ==
  /\ pa_js.pc = "attempting"
  /\ LET e == makeRequest(pa_resp)
         w == getLastSoldWait(e, pa_js.attempt, pa_n)
     IN pa_js' = [pc |-> IF w # NoWait THEN "attempting" ELSE "thrown",
                  attempt |-> IF w # NoWait THEN pa_js.attempt + 1
                              ELSE pa_js.attempt,
                  requests |-> pa_js.requests + 1]
  /\ UNCHANGED <<pa_resp, pa_n, pa_py>>

\* get_last_sold: one pass of the for loop, with its sleep
parity_get_last_sold_attempt ==
  /\ pa_py.pc = "attempting"
  /\ LET cls == py_handle_response(pa_resp.status, pa_resp.retryAfter)
         again == py_continues(cls, pa_py.attempt, pa_n)
     IN pa_py' = [pc |-> IF again THEN "attempting" ELSE "thrown",
                  attempt |-> IF again THEN pa_py.attempt + 1
                              ELSE pa_py.attempt,
                  requests |-> pa_py.requests + 1]
  /\ UNCHANGED <<pa_resp, pa_n, pa_js>>

\* --------------------------------------------------------- exponentialBackoff

\* what one invocation of fn can do: return, or throw one of these errors
\* (PlainError429 is an error object with status 429 that is no RateLimitError)
FnErrors ==
  { [cls |-> "ServerError", status |-> 500, retryAfter |-> 0],
    [cls |-> "RateLimitError", status |-> 429, retryAfter |-> 60],
    [cls |-> "ValidationError", status |-> 400, retryAfter |-> 0],
    [cls |-> "APIError", status |-> 503, retryAfter |-> 0],
    [cls |-> "Error", status |-> 429, retryAfter |-> 0] }

FnOutcomes == {NoError} \cup FnErrors

VARIABLES
  eb_variant,   \* which of the two documented versions runs
  eb_pc,        \* idle | calling | waiting | returned | thrown
  eb_max,       \* the `maxRetries` argument
  eb_attempt,   \* the loop variable `attempt`
  eb_calls,     \* invocations of fn made by this call
  eb_hist,      \* per invocation: what fn did and the wait that followed
  eb_thrown     \* the error the call threw

ebVars == <<eb_variant, eb_pc, eb_max, eb_attempt, eb_calls, eb_hist, eb_thrown>>

ebInit ==
  /\ eb_variant = "error-handling"
  /\ eb_pc = "idle"
  /\ eb_max = 0
  /\ eb_attempt = 0
  /\ eb_calls = 0
  /\ eb_hist = <<>>
  /\ eb_thrown = NoError

\* a delay without the 30 s cap
backoffDelay_uncapped(attempt) == 1000 * Pow2(attempt - 1)

\* a delay that starts at 2^attempt seconds, as getLastSold's does
backoffDelay_fromTwo(attempt) == Min(1000 * Pow2(attempt), 30000)

\* `Math.min(1000 * Math.pow(2, attempt - 1), 30000)`
backoffDelay(attempt) == Min(1000 * Pow2(attempt - 1), 30000)

\* a catch clause that retries every error
backoffWait_anyError(variant, e, attempt, max) ==
  IF attempt < max THEN backoffDelay(attempt) ELSE NoWait

\* a catch clause whose last attempt waits too
backoffWait_lastWaits(variant, e, attempt, max) ==
  IF e.cls \in {"ServerError", "RateLimitError"} THEN backoffDelay(attempt)
  ELSE NoWait

\* the catch clause of exponentialBackoff: the wait after error e of `attempt`,
\* NoWait when it rethrows e
backoffWait(variant, e, attempt, max) ==
  IF variant = "error-handling"
    THEN IF attempt = max THEN NoWait
         ELSE IF e.cls \in {"ServerError", "RateLimitError"}
           THEN backoffDelay(attempt)
         ELSE NoWait
    ELSE IF e.status = 429 /\ attempt < max THEN backoffDelay(attempt)
         ELSE NoWait

\* exponentialBackoff(fn, maxRetries): entering the for loop
exponentialBackoff_call ==
  /\ eb_pc \in {"idle", "returned", "thrown"}
  /\ \E v \in {"error-handling", "rate-limits"}, m \in 0..MaxBackoffRetries :
       /\ eb_variant' = v
       /\ eb_max' = m
       /\ eb_pc' = IF 1 <= m THEN "calling" ELSE "returned"
  /\ eb_attempt' = 1
  /\ eb_calls' = 0
  /\ eb_hist' = <<>>
  /\ eb_thrown' = NoError

\* one pass of the loop body: `await fn()` and the catch clause
exponentialBackoff_attempt ==
  /\ eb_pc = "calling"
  /\ \E e \in FnOutcomes :
       LET w == IF e = NoError THEN NoWait
                ELSE backoffWait(eb_variant, e, eb_attempt, eb_max)
       IN /\ eb_calls' = eb_calls + 1
          /\ eb_hist' = Append(eb_hist, [err |-> e, wait |-> w])
          /\ IF e = NoError
               THEN eb_pc' = "returned" /\ eb_thrown' = eb_thrown
             ELSE IF w # NoWait
               THEN eb_pc' = "waiting" /\ eb_thrown' = eb_thrown
             ELSE eb_pc' = "thrown" /\ eb_thrown' = e
  /\ UNCHANGED <<eb_variant, eb_max, eb_attempt>>

\* the setTimeout fires: `continue`, attempt++ and the loop test
exponentialBackoff_wake ==
  /\ eb_pc = "waiting"
  /\ eb_attempt' = eb_attempt + 1
  /\ eb_pc' = IF eb_attempt + 1 <= eb_max THEN "calling" ELSE "returned"
  /\ UNCHANGED <<eb_variant, eb_max, eb_calls, eb_hist, eb_thrown>>

\* ------------------------------------------------------------ CircuitBreaker

VARIABLES
  now,              \* Date.now(), in units of the breaker's timeout
  cb_threshold,     \* this.failureThreshold
  cb_timeout,       \* this.timeout
  cb_state,         \* this.state: CLOSED | OPEN | HALF_OPEN ("none": no breaker yet)
  cb_failureCount,  \* this.failureCount
  cb_nextAttempt,   \* this.nextAttempt
  cb_executes,      \* execute calls made so far; call number n is the n-th
  cb_calls,         \* per execute call: unused | rejected | inflight | returned | thrown
  cb_fnCalls        \* invocations of fn made by execute

cbVars ==
  <<now, cb_threshold, cb_timeout, cb_state, cb_failureCount, cb_nextAttempt,
    cb_executes, cb_calls, cb_fnCalls>>

CallIds == 1..MaxExecutes

cbInit ==
  /\ now = 0
  /\ cb_threshold = 0
  /\ cb_timeout = 0
  /\ cb_state = "none"
  /\ cb_failureCount = 0
  /\ cb_nextAttempt = 0
  /\ cb_executes = 0
  /\ cb_calls = [i \in CallIds |-> "unused"]
  /\ cb_fnCalls = 0

\* new CircuitBreaker(threshold, timeout)
CircuitBreaker_constructor ==
  /\ cb_state = "none"
  /\ \E th \in 0..MaxThreshold, to \in 1..MaxTimeout :
       /\ cb_threshold' = th
       /\ cb_timeout' = to
  /\ cb_failureCount' = 0
  /\ cb_state' = "CLOSED"
  /\ cb_nextAttempt' = now
  /\ UNCHANGED <<now, cb_executes, cb_calls, cb_fnCalls>>

\* the clock advances
Tick ==
  /\ now < MaxTime
  /\ now' = now + 1
  /\ UNCHANGED <<cb_threshold, cb_timeout, cb_state, cb_failureCount,
                 cb_nextAttempt, cb_executes, cb_calls, cb_fnCalls>>

\* a time test turned around: `Date.now() > this.nextAttempt`
openAndEarly_flipped == cb_state = "OPEN" /\ now > cb_nextAttempt

\* `this.state === 'OPEN'` and `Date.now() < this.nextAttempt`
openAndEarly == cb_state = "OPEN" /\ now < cb_nextAttempt

\* execute(fn) up to its first await: the OPEN test, then the call of fn
execute ==
  /\ cb_state # "none"
  /\ cb_executes < MaxExecutes
  /\ cb_executes' = cb_executes + 1
  /\ IF openAndEarly
       THEN \* throw new Error('Circuit breaker is OPEN')
            /\ cb_calls' = [cb_calls EXCEPT ![cb_executes + 1] = "rejected"]
            /\ UNCHANGED <<cb_state, cb_fnCalls>>
       ELSE /\ cb_state' = IF cb_state = "OPEN" THEN "HALF_OPEN" ELSE cb_state
            /\ cb_calls' = [cb_calls EXCEPT ![cb_executes + 1] = "inflight"]
            /\ cb_fnCalls' = cb_fnCalls + 1
  /\ UNCHANGED <<now, cb_threshold, cb_timeout, cb_failureCount, cb_nextAttempt>>

\* no execute call is waiting for its fn: calls are run one at a time
noneInFlight == \A id \in CallIds : cb_calls[id] # "inflight"

\* an onSuccess that leaves failureCount as it is
execute_onSuccess_keepsCount(id) ==
  /\ cb_calls[id] = "inflight"
  /\ cb_state' = "CLOSED"
  /\ cb_calls' = [cb_calls EXCEPT ![id] = "returned"]
  /\ UNCHANGED <<now, cb_threshold, cb_timeout, cb_failureCount,
                 cb_nextAttempt, cb_executes, cb_fnCalls>>

\* fn of call id resolves: onSuccess, then `return result`
execute_onSuccess(id) ==
  /\ cb_calls[id] = "inflight"
  /\ cb_failureCount' = 0
  /\ cb_state' = "CLOSED"
  /\ cb_calls' = [cb_calls EXCEPT ![id] = "returned"]
  /\ UNCHANGED <<now, cb_threshold, cb_timeout, cb_nextAttempt, cb_executes,
                 cb_fnCalls>>

\* an onFailure that opens the breaker without moving nextAttempt
execute_onFailure_keepsNextAttempt(id) ==
  /\ cb_calls[id] = "inflight"
  /\ cb_failureCount' = cb_failureCount + 1
  /\ IF cb_failureCount + 1 >= cb_threshold
       THEN cb_state' = "OPEN"
       ELSE UNCHANGED cb_state
  /\ cb_calls' = [cb_calls EXCEPT ![id] = "thrown"]
  /\ UNCHANGED <<now, cb_threshold, cb_timeout, cb_nextAttempt, cb_executes,
                 cb_fnCalls>>

\* fn of call id rejects: onFailure, then `throw error`
execute_onFailure(id) ==
  /\ cb_calls[id] = "inflight"
  /\ cb_failureCount' = cb_failureCount + 1
  /\ IF cb_failureCount + 1 >= cb_threshold
       THEN cb_state' = "OPEN" /\ cb_nextAttempt' = now + cb_timeout
       ELSE UNCHANGED <<cb_state, cb_nextAttempt>>
  /\ cb_calls' = [cb_calls EXCEPT ![id] = "thrown"]
  /\ UNCHANGED <<now, cb_threshold, cb_timeout, cb_executes, cb_fnCalls>>

\* ------------------------------------------------------------- ResponseCache

\* cache keys (`price_${ticker}`) and the data stored under them
CacheKeys == {"price_AAPL", "price_MSFT"}
CacheData == {"d1", "d2"}

\* Map.get of a key that is not in the map
NoEntry == [data |-> "null", timestamp |-> 0, present |-> FALSE]

VARIABLES
  rc_made,      \* a ResponseCache has been constructed
  rc_ttl,       \* this.ttl, in ms
  rc_cache,     \* this.cache: per key {data, timestamp}, or NoEntry
  rc_now,       \* Date.now(), in ms
  rc_last,      \* the latest get/set/clear: the call and what it returned
  rc_stored     \* per key: the latest set since the last clear, if any

rcVars == <<rc_made, rc_ttl, rc_cache, rc_now, rc_last, rc_stored>>

rcInit ==
  /\ rc_made = FALSE
  /\ rc_ttl = 0
  /\ rc_cache = [k \in CacheKeys |-> NoEntry]
  /\ rc_now = 0
  /\ rc_last = [op |-> "none", key |-> "none", result |-> "null", at |-> 0]
  /\ rc_stored = [k \in CacheKeys |-> NoEntry]

\* new ResponseCache(ttlSeconds)
ResponseCache_constructor ==
  /\ ~rc_made
  /\ rc_made' = TRUE
  /\ \E ttlSeconds \in 0..MaxTtlSeconds : rc_ttl' = ttlSeconds * 1000
  /\ UNCHANGED <<rc_cache, rc_now, rc_last, rc_stored>>

\* the clock advances by half a second
cacheTick ==
  /\ rc_now < MaxCacheSteps * 500
  /\ rc_now' = rc_now + 500
  /\ UNCHANGED <<rc_made, rc_ttl, rc_cache, rc_last, rc_stored>>

\* an expiry test that also drops an entry exactly ttl ms old
expired_atTtl(item) == rc_now - item.timestamp >= rc_ttl

\* `Date.now() - item.timestamp > this.ttl`
expired(item) == rc_now - item.timestamp > rc_ttl

\* cache.get(key): the value returned
cacheGet(key) ==
  LET item == rc_cache[key] IN
  IF ~item.present THEN "null"
  ELSE IF expired(item) THEN "null"
  ELSE item.data

\* cache.get(key): the map it leaves
cacheAfterGet(key) ==
  LET item == rc_cache[key] IN
  IF item.present /\ expired(item)
    THEN [rc_cache EXCEPT ![key] = NoEntry]
    ELSE rc_cache

\* cache.set(key, data): the map it leaves
cacheAfterSet(key, data) ==
  [rc_cache EXCEPT
     ![key] = [data |-> data, timestamp |-> rc_now, present |-> TRUE]]

\* get(key)
ResponseCache_get ==
  /\ rc_made
  /\ \E key \in CacheKeys :
       /\ rc_last' = [op |-> "get", key |-> key, result |-> cacheGet(key),
                      at |-> rc_now]
       /\ rc_cache' = cacheAfterGet(key)
  /\ UNCHANGED <<rc_made, rc_ttl, rc_now, rc_stored>>

\* set(key, data)
ResponseCache_set ==
  /\ rc_made
  /\ \E key \in CacheKeys, data \in CacheData :
       /\ rc_cache' = cacheAfterSet(key, data)
       /\ rc_stored' = [rc_stored EXCEPT
            ![key] = [data |-> data, timestamp |-> rc_now, present |-> TRUE]]
       /\ rc_last' = [op |-> "set", key |-> key, result |-> "null",
                      at |-> rc_now]
  /\ UNCHANGED <<rc_made, rc_ttl, rc_now>>

\* clear()
ResponseCache_clear ==
  /\ rc_made
  /\ rc_cache' = [k \in CacheKeys |-> NoEntry]
  /\ rc_stored' = [k \in CacheKeys |-> NoEntry]
  /\ rc_last' = [op |-> "clear", key |-> "none", result |-> "null",
                 at |-> rc_now]
  /\ UNCHANGED <<rc_made, rc_ttl, rc_now>>

\* ------------------------------------------------------------ getCachedPrice
\* Calls of getCachedPrice on the ResponseCache above; a call runs up to its
\* `await api.getLastSold(ticker)` in one step and resumes when that settles.

PriceCallIds == 1..MaxPriceCalls

VARIABLES
  gp_made,      \* getCachedPrice calls made so far
  gp_calls,     \* per call: unused | fetching | returned | thrown, and its key
  gp_requests   \* API requests issued, per cache key

gpVars == <<gp_made, gp_calls, gp_requests>>

gpInit ==
  /\ gp_made = 0
  /\ gp_calls = [i \in PriceCallIds |-> [pc |-> "unused", key |-> "none"]]
  /\ gp_requests = [k \in CacheKeys |-> 0]

\* getCachedPrice(ticker) up to its await: a hit returns the cached data, a
\* miss issues the request
getCachedPrice ==
  /\ rc_made
  /\ gp_made < MaxPriceCalls
  /\ gp_made' = gp_made + 1
  /\ \E key \in CacheKeys :
       LET cached == cacheGet(key) IN
       /\ rc_cache' = cacheAfterGet(key)
       /\ rc_last' = [op |-> "get", key |-> key, result |-> cached,
                      at |-> rc_now]
       /\ IF cached # "null"
            THEN /\ gp_calls' = [gp_calls EXCEPT
                      ![gp_made + 1] = [pc |-> "returned", key |-> key]]
                 /\ UNCHANGED gp_requests
            ELSE /\ gp_calls' = [gp_calls EXCEPT
                      ![gp_made + 1] = [pc |-> "fetching", key |-> key]]
                 /\ gp_requests' = [gp_requests EXCEPT ![key] = @ + 1]
  /\ UNCHANGED <<rc_made, rc_ttl, rc_now, rc_stored>>

\* api.getLastSold of call id resolves: cache.set, `return data`
getCachedPrice_resolve(id) ==
  /\ gp_calls[id].pc = "fetching"
  /\ \E data \in CacheData :
       LET key == gp_calls[id].key IN
       /\ rc_cache' = cacheAfterSet(key, data)
       /\ rc_stored' = [rc_stored EXCEPT
            ![key] = [data |-> data, timestamp |-> rc_now, present |-> TRUE]]
       /\ rc_last' = [op |-> "set", key |-> key, result |-> "null",
                      at |-> rc_now]
  /\ gp_calls' = [gp_calls EXCEPT ![id].pc = "returned"]
  /\ UNCHANGED <<rc_made, rc_ttl, rc_now, gp_made, gp_requests>>

\* api.getLastSold of call id rejects: getCachedPrice throws
getCachedPrice_reject(id) ==
  /\ gp_calls[id].pc = "fetching"
  /\ gp_calls' = [gp_calls EXCEPT ![id].pc = "thrown"]
  /\ UNCHANGED <<rcVars, gp_made, gp_requests>>

\* -------------------------------------------------------------- RequestQueue
\* Requests are numbered in the order of their add calls. Whether the loop
\* has to wait for `interval` to pass is left open: the timer's delay is
\* finite whatever the clock shows.

RequestIds == 1..MaxAdds

VARIABLES
  rq_added,       \* add calls made so far
  rq_queue,       \* this.queue
  rq_processing,  \* this.processing
  rq_pc,          \* the process loop: idle | waiting (timer) | running (requestFn)
  rq_current,     \* the request whose requestFn the loop awaits, or 0
  rq_req,         \* per request: unused | queued | executing | resolved | rejected
  rq_promise,     \* per add: the promise's state and whose outcome settled it
  rq_started      \* the requests in the order their requestFn was started

rqVars ==
  <<rq_added, rq_queue, rq_processing, rq_pc, rq_current, rq_req, rq_promise,
    rq_started>>

rqInit ==
  /\ rq_added = 0
  /\ rq_queue = <<>>
  /\ rq_processing = FALSE
  /\ rq_pc = "idle"
  /\ rq_current = 0
  /\ rq_req = [i \in RequestIds |-> "unused"]
  /\ rq_promise = [i \in RequestIds |-> [state |-> "none", of |-> 0]]
  /\ rq_started = <<>>

\* a guard that forgets the processing flag
processReturns_ignoresFlag(processing, q) == q = <<>>

\* `if (this.processing || this.queue.length === 0) return;`
processReturns(processing, q) == processing \/ q = <<>>

\* `this.queue.shift()` and the call of requestFn, for queue q
startNext(q, req) ==
  /\ rq_queue' = Tail(q)
  /\ rq_current' = Head(q)
  /\ rq_req' = [req EXCEPT ![Head(q)] = "executing"]
  /\ rq_started' = Append(rq_started, Head(q))
  /\ rq_pc' = "running"

\* the while loop from its test to its next await, for queue q
processLoop(q, req) ==
  IF q = <<>>
    THEN /\ rq_processing' = FALSE
         /\ rq_pc' = "idle"
         /\ rq_queue' = q
         /\ rq_current' = 0
         /\ rq_req' = req
         /\ UNCHANGED rq_started
    ELSE /\ rq_processing' = TRUE
         /\ \/ \* timeSinceLastRequest < this.interval: await the timer
               /\ rq_pc' = "waiting"
               /\ rq_queue' = q
               /\ rq_current' = 0
               /\ rq_req' = req
               /\ UNCHANGED rq_started
            \/ startNext(q, req)

\* add(requestFn): the push and the call of process()
RequestQueue_add ==
  /\ rq_added < MaxAdds
  /\ rq_added' = rq_added + 1
  /\ rq_promise' = [rq_promise EXCEPT
       ![rq_added + 1] = [state |-> "pending", of |-> 0]]
  /\ LET q == Append(rq_queue, rq_added + 1)
         req == [rq_req EXCEPT ![rq_added + 1] = "queued"]
     IN IF processReturns(rq_processing, q)
          THEN /\ rq_queue' = q
               /\ rq_req' = req
               /\ UNCHANGED <<rq_processing, rq_pc, rq_current, rq_started>>
          ELSE processLoop(q, req)

\* the setTimeout of the loop fires
process_timer ==
  /\ rq_pc = "waiting"
  /\ startNext(rq_queue, rq_req)
  /\ UNCHANGED <<rq_added, rq_processing, rq_promise>>

\* a loop without its catch clause: the rejection ends process()
requestFn_rejects_uncaught ==
  /\ rq_pc = "running"
  /\ rq_pc' = "idle"
  /\ rq_current' = 0
  /\ rq_req' = [rq_req EXCEPT ![rq_current] = "rejected"]
  /\ UNCHANGED <<rq_added, rq_queue, rq_processing, rq_promise, rq_started>>

\* `await requestFn()` resolves: resolve(result), then the loop goes on
requestFn_resolves ==
  /\ rq_pc = "running"
  /\ rq_promise' = [rq_promise EXCEPT
       ![rq_current] = [state |-> "fulfilled", of |-> rq_current]]
  /\ processLoop(rq_queue, [rq_req EXCEPT ![rq_current] = "resolved"])
  /\ UNCHANGED rq_added

\* `await requestFn()` rejects: reject(error), then the loop goes on
requestFn_rejects ==
  /\ rq_pc = "running"
  /\ rq_promise' = [rq_promise EXCEPT
       ![rq_current] = [state |-> "rejected", of |-> rq_current]]
  /\ processLoop(rq_queue, [rq_req EXCEPT ![rq_current] = "rejected"])
  /\ UNCHANGED rq_added

\* ------------------------------------- RequestQueue against the clock
\* src/unnamed/part_001, class RequestQueue, with Date.now() and the delay
\* of setTimeout: times are whole milliseconds, this.interval is the
\* rational 1000 / requestsPerSecond and is compared without rounding.

MaxRps == 3
MaxTimedAdds == 4

\* how long a requestFn takes, and how long the caller lets pass before a
\* call of add, in milliseconds
Durations == {0, 400}
Gaps == {0, 600}

VARIABLES
  tq_made,         \* the constructor has run
  tq_rps,          \* requestsPerSecond; this.interval = 1000 / tq_rps
  tq_now,          \* Date.now()
  tq_lastRequest,  \* this.lastRequest
  tq_added,        \* number of add calls made
  tq_queue,        \* this.queue, as the ids of the queued requests
  tq_processing,   \* this.processing
  tq_pc,           \* where process() is: "idle", "waiting", "running"
  tq_wake,         \* when the pending setTimeout fires
  tq_starts,       \* Date.now() at each call of a requestFn, in order
  tq_ends          \* Date.now() when each requestFn settled, in order

tqVars ==
  <<tq_made, tq_rps, tq_now, tq_lastRequest, tq_added, tq_queue,
    tq_processing, tq_pc, tq_wake, tq_starts, tq_ends>>

\* before the constructor; the clock reads a time well after 0, as
\* Date.now() does, so that lastRequest = 0 lies more than one interval back
tqInit ==
  /\ tq_made = FALSE
  /\ tq_rps = 1
  /\ tq_now = 1000
  /\ tq_lastRequest = 0
  /\ tq_added = 0
  /\ tq_queue = <<>>
  /\ tq_processing = FALSE
  /\ tq_pc = "idle"
  /\ tq_wake = 0
  /\ tq_starts = <<>>
  /\ tq_ends = <<>>

\* constructor(requestsPerSecond): this.interval = 1000 / requestsPerSecond,
\* this.lastRequest = 0
timed_constructor ==
  /\ ~tq_made
  /\ \E rps \in 1..MaxRps : tq_rps' = rps
  /\ tq_made' = TRUE
  /\ tq_lastRequest' = 0
  /\ tq_queue' = <<>>
  /\ tq_processing' = FALSE
  /\ UNCHANGED <<tq_now, tq_added, tq_pc, tq_wake, tq_starts, tq_ends>>

\* timeSinceLastRequest < this.interval
tooSoon(t, last, rps) == (t - last) * rps < 1000

\* the delays after which setTimeout(resolve, this.interval -
\* timeSinceLastRequest) can fire: the delay (1000 - since * rps) / rps need
\* not be whole; a browser converts it to a whole number of milliseconds by
\* dropping the fraction, Node.js waits for the next whole millisecond
timerDelays(t, last, rps) ==
  LET num == 1000 - (t - last) * rps
  IN  {num \div rps, (num + rps - 1) \div rps}

\* one pass of the while loop up to the call of requestFn, at time t with
\* queue q: wait for the timer, or shift the queue and call requestFn
timed_iterate(t, q) ==
  IF tooSoon(t, tq_lastRequest', tq_rps)
  THEN /\ tq_pc' = "waiting"
       /\ \E d \in timerDelays(t, tq_lastRequest', tq_rps) :
            tq_wake' = t + d
       /\ tq_queue' = q
       /\ tq_starts' = tq_starts
  ELSE /\ tq_pc' = "running"
       /\ tq_wake' = tq_wake
       /\ tq_queue' = Tail(q)
       /\ tq_starts' = Append(tq_starts, t)

\* add(requestFn), called after the caller let gap milliseconds pass: push,
\* then process(), which returns at once while a loop is already running
timed_add ==
  /\ tq_made
  /\ tq_added < MaxTimedAdds
  /\ tq_added' = tq_added + 1
  /\ \E gap \in Gaps : tq_now' = tq_now + gap
  /\ tq_lastRequest' = tq_lastRequest
  /\ IF tq_processing
     THEN /\ tq_queue' = Append(tq_queue, tq_added')
          /\ UNCHANGED <<tq_processing, tq_pc, tq_wake, tq_starts>>
     ELSE /\ tq_processing' = TRUE
          /\ timed_iterate(tq_now', Append(tq_queue, tq_added'))
  /\ UNCHANGED <<tq_made, tq_rps, tq_ends>>

\* the timer fires, at its time or late: the loop goes on to shift the queue
\* and call requestFn without looking at the clock again
timed_timer ==
  /\ tq_pc = "waiting"
  /\ tq_now' = IF tq_now > tq_wake THEN tq_now ELSE tq_wake
  /\ tq_pc' = "running"
  /\ tq_queue' = Tail(tq_queue)
  /\ tq_starts' = Append(tq_starts, tq_now')
  /\ UNCHANGED <<tq_made, tq_rps, tq_lastRequest, tq_added, tq_processing,
                 tq_wake, tq_ends>>

\* the requestFn settles after some duration, resolved or rejected:
\* this.lastRequest = Date.now(), then the while condition
timed_settle ==
  /\ tq_pc = "running"
  /\ \E d \in Durations : tq_now' = tq_now + d
  /\ tq_ends' = Append(tq_ends, tq_now')
  /\ tq_lastRequest' = tq_now'
  /\ IF tq_queue = <<>>
     THEN /\ tq_processing' = FALSE
          /\ tq_pc' = "idle"
          /\ UNCHANGED <<tq_queue, tq_wake, tq_starts>>
     ELSE /\ tq_processing' = tq_processing
          /\ timed_iterate(tq_now', tq_queue)
  /\ UNCHANGED <<tq_made, tq_rps, tq_added>>

\* ------------------------------------------------------------ RateLimitAlert
\* src/unnamed/part_001, class RateLimitAlert. Thresholds are held in tenths
\* and usage = (limit - remaining) / limit is compared by cross-multiplying.

MaxAlertCalls == 3

\* thresholds in tenths: 0.3, 0.5 and the default 0.8
ThresholdTenths == {3, 5, 8}

\* the (remaining, limit) pairs passed to checkAndAlert: usage 0.9, 0.6,
\* 0.5, 0.4 and 0 of limit 10, 0.75 and 0.25 of limit 4
Readings ==
  {<<1, 10>>, <<4, 10>>, <<5, 10>>, <<6, 10>>, <<10, 10>>, <<1, 4>>, <<3, 4>>}

VARIABLES
  ra_made,       \* the constructor has run
  ra_threshold,  \* this.threshold, in tenths
  ra_alertSent,  \* this.alertSent
  ra_calls       \* per checkAndAlert call: remaining, limit, sendAlert called

raVars == <<ra_made, ra_threshold, ra_alertSent, ra_calls>>

raInit ==
  /\ ra_made = FALSE
  /\ ra_threshold = 8
  /\ ra_alertSent = FALSE
  /\ ra_calls = <<>>

\* constructor(threshold = 0.8)
RateLimitAlert_constructor ==
  /\ ~ra_made
  /\ ra_made' = TRUE
  /\ \E th \in ThresholdTenths : ra_threshold' = th
  /\ ra_alertSent' = FALSE
  /\ UNCHANGED ra_calls

\* usage > this.threshold, with usage = (limit - remaining) / limit
usageAbove(remaining, limit, tenths) == (limit - remaining) * 10 > tenths * limit

\* usage < 0.5
usageBelowHalf(remaining, limit) == (limit - remaining) * 2 < limit

\* checkAndAlert(remaining, limit)
checkAndAlert ==
  /\ ra_made
  /\ Len(ra_calls) < MaxAlertCalls
  /\ \E r \in Readings :
       LET remaining == r[1]
           limit == r[2]
           alert == usageAbove(remaining, limit, ra_threshold) /\ ~ra_alertSent
           sent == IF alert THEN TRUE ELSE ra_alertSent
       IN  /\ ra_calls' = Append(ra_calls,
                 [remaining |-> remaining, limit |-> limit, alert |-> alert])
           /\ ra_alertSent' =
                IF usageBelowHalf(remaining, limit) THEN FALSE ELSE sent
  /\ UNCHANGED <<ra_made, ra_threshold>>

\* ---------------------------------------------------------- RateLimitHandler

\* error.retryAfter of an error that has no such property (undefined)
Absent == -1

\* what fn does when makeRequest invokes it: it resolves, or rejects with an
\* error that has a status and, possibly, a retryAfter in seconds
HandlerErrors == [status : {400, 429, 500}, retryAfter : {Absent, 0, 30}]
NoHandlerError == [status : {200}, retryAfter : {Absent}]
HandlerOutcomes == HandlerErrors \cup NoHandlerError

VARIABLES
  rl_pc,      \* idle | first | waiting | second | returned | thrown
  rl_hist,    \* per invocation of fn: its outcome and the wait that followed
  rl_thrown   \* the error makeRequest threw

rlVars == <<rl_pc, rl_hist, rl_thrown>>

rlInit ==
  /\ rl_pc = "idle"
  /\ rl_hist = <<>>
  /\ rl_thrown = [status |-> 200, retryAfter |-> Absent]

\* `error.retryAfter || 60`: undefined and 0 are falsy
retryAfterSeconds(e) ==
  IF e.retryAfter = Absent \/ e.retryAfter = 0 THEN 60 ELSE e.retryAfter

\* makeRequest(fn) is called
makeRequest_call ==
  /\ rl_pc \in {"idle", "returned", "thrown"}
  /\ rl_pc' = "first"
  /\ rl_hist' = <<>>
  /\ UNCHANGED rl_thrown

\* `return await fn()` in the try block settles
makeRequest_first ==
  /\ rl_pc = "first"
  /\ \E o \in HandlerOutcomes :
       IF o.status = 200
         THEN /\ rl_hist' = Append(rl_hist, [out |-> o, wait |-> NoWait])
              /\ rl_pc' = "returned"
              /\ UNCHANGED rl_thrown
       ELSE IF o.status = 429
         THEN /\ rl_hist' = Append(rl_hist,
                   [out |-> o, wait |-> retryAfterSeconds(o) * 1000])
              /\ rl_pc' = "waiting"
              /\ UNCHANGED rl_thrown
       ELSE /\ rl_hist' = Append(rl_hist, [out |-> o, wait |-> NoWait])
            /\ rl_pc' = "thrown"
            /\ rl_thrown' = o

\* the setTimeout fires and fn is invoked again
makeRequest_wake ==
  /\ rl_pc = "waiting"
  /\ rl_pc' = "second"
  /\ UNCHANGED <<rl_hist, rl_thrown>>

\* `return await fn()` in the catch block settles
makeRequest_second ==
  /\ rl_pc = "second"
  /\ \E o \in HandlerOutcomes :
       /\ rl_hist' = Append(rl_hist, [out |-> o, wait |-> NoWait])
       /\ IF o.status = 200
            THEN rl_pc' = "returned" /\ UNCHANGED rl_thrown
            ELSE rl_pc' = "thrown" /\ rl_thrown' = o

\* ------------------------------------------- the Prixe service: /api/* requests
\* The service is not part of the repository; what follows is its documented
\* contract. One rate-limit window (the hour) is modelled, with quotas scaled
\* down. The documentation gives no order for the checks of a request; the
\* model authenticates, then enforces the quotas, then validates the body.

\* the API keys the service has issued, and the plan of each
Keys == {"free_key", "enterprise_key"}

\* the addresses requests come from
Ips == {"ip1", "ip2"}

\* Requests/Hour of a key's plan
planLimit(k) == IF k = "free_key" THEN FreeLimit ELSE EnterpriseLimit

\* Authorization headers: missing, a key without the 'Bearer ' prefix, or
\* 'Bearer <key>' with an issued key or a key that was never issued
AuthHeaders ==
  [present : {FALSE}, bearer : {FALSE}, key : {"none"}]
    \cup [present : {TRUE}, bearer : BOOLEAN, key : Keys \cup {"bad_key"}]

ApiRequests == [auth : AuthHeaders, ip : Ips, wellFormed : BOOLEAN]

\* what can go wrong behind the endpoint: nothing, or a 500 or 503 failure
Failures == {0, 500, 503}

VARIABLES
  srv_keyUsed,   \* per key: requests counted in the current window
  srv_ipUsed,    \* per address: requests counted in the current window
  api_req,       \* the latest /api/* request
  api_resp       \* the response it was answered with

\* the response before any request was made
NoResponse ==
  [status |-> 0, data |-> FALSE, error |-> FALSE, requirements |-> FALSE,
   rateHeaders |-> FALSE, limit |-> 0, remaining |-> 0, retryAfter |-> 0]

apiInit ==
  /\ srv_keyUsed = [k \in Keys |-> 0]
  /\ srv_ipUsed = [i \in Ips |-> 0]
  /\ api_req = [auth |-> [present |-> FALSE, bearer |-> FALSE, key |-> "none"],
                ip |-> "ip1", wellFormed |-> TRUE]
  /\ api_resp = NoResponse

\* an authentication that accepts a key sent without the 'Bearer ' prefix
authenticated_noPrefix(auth) == auth.present /\ auth.key \in Keys

\* `Authorization: Bearer <key>` with an issued key
authenticated(auth) == auth.present /\ auth.bearer /\ auth.key \in Keys

\* a limiter that forgets the per-address quota
exhausted_keyOnly(k, ip) == srv_keyUsed[k] >= planLimit(k)

\* the key's quota or the address's quota for the window is used up
exhausted(k, ip) ==
  srv_keyUsed[k] >= planLimit(k) \/ srv_ipUsed[ip] >= IpLimit

\* the {error, status} body of a failure, with the rate-limit headers of a
\* request that was counted
errorResponse(status, limit, remaining) ==
  [status |-> status, data |-> FALSE, error |-> TRUE, requirements |-> FALSE,
   rateHeaders |-> limit > 0, limit |-> limit, remaining |-> remaining,
   retryAfter |-> 0]

\* 429 Too Many Requests with Retry-After and X-RateLimit-Remaining: 0
rateLimitResponse(limit) ==
  [status |-> 429, data |-> FALSE, error |-> TRUE, requirements |-> FALSE,
   rateHeaders |-> TRUE, limit |-> limit, remaining |-> 0,
   retryAfter |-> WindowSeconds]

\* the response to an /api/* request, given the failure behind the endpoint
apiRespond(req, fail) ==
  IF ~authenticated(req.auth) THEN errorResponse(401, 0, 0)
  ELSE LET k == req.auth.key
           limit == planLimit(k)
           left == limit - (srv_keyUsed[k] + 1)
       IN IF exhausted(k, req.ip)
            THEN rateLimitResponse(
                   IF srv_keyUsed[k] >= limit THEN limit ELSE IpLimit)
          ELSE IF ~req.wellFormed THEN errorResponse(400, limit, left)
          ELSE IF fail # 0 THEN errorResponse(fail, limit, left)
          ELSE [status |-> 200, data |-> TRUE, error |-> FALSE,
                requirements |-> FALSE, rateHeaders |-> TRUE, limit |-> limit,
                remaining |-> left, retryAfter |-> 0]

\* a request the limiter lets through is counted against key and address
counted(req) == authenticated(req.auth) /\ ~exhausted(req.auth.key, req.ip)

\* the failures that can occur behind the endpoint for req: none before the
\* request reaches it
failuresFor(req) ==
  IF counted(req) /\ req.wellFormed THEN Failures ELSE {0}

\* POST /api/last_sold, /api/price, /api/search or /api/news
api_request ==
  \E req \in ApiRequests :
    \E fail \in failuresFor(req) :
      /\ api_req' = req
      /\ api_resp' = apiRespond(req, fail)
      /\ IF counted(req)
           THEN /\ srv_keyUsed' = [srv_keyUsed EXCEPT ![req.auth.key] = @ + 1]
                /\ srv_ipUsed' = [srv_ipUsed EXCEPT ![req.ip] = @ + 1]
           ELSE UNCHANGED <<srv_keyUsed, srv_ipUsed>>

\* X-RateLimit-Reset is reached: a new window starts
windowReset ==
  /\ \E k \in Keys : srv_keyUsed[k] > 0
  /\ srv_keyUsed' = [k \in Keys |-> 0]
  /\ srv_ipUsed' = [i \in Ips |-> 0]
  /\ UNCHANGED <<api_req, api_resp>>

\* ------------------------------------- the Prixe service: /x402/* and /xpay/*

\* the X-PAYMENT header of a request: none, a payment that verifies, or one
\* that does not (bad signature, insufficient amount)
Payments == {"none", "valid", "invalid"}

\* a path under /x402/ or /xpay/ that is an endpoint, or one that is not
Paths == {"last_sold", "no_such_endpoint"}

X402Requests == [path : Paths, payment : Payments, ip : Ips]

\* the address the x402-fetch client calls from
ClientIp == "ip1"

VARIABLES
  srv_x402Seen,   \* pay-per-call requests received from ClientIp
  xf_pc,          \* x402-fetch: idle | paying | done | failed
  xf_log          \* the exchanges of the current fetchWithPay call

srvVars == <<srv_keyUsed, srv_ipUsed, api_req, api_resp>>
x402Vars == <<srv_x402Seen, xf_pc, xf_log>>

x402Init ==
  /\ srv_x402Seen = 0
  /\ xf_pc = "idle"
  /\ xf_log = <<>>

\* 402 Payment Required with the payment requirements
paymentRequired ==
  [status |-> 402, data |-> FALSE, error |-> TRUE, requirements |-> TRUE,
   rateHeaders |-> FALSE, limit |-> 0, remaining |-> 0, retryAfter |-> 0]

\* the requested data, sent by a pay-per-call endpoint
paidData ==
  [status |-> 200, data |-> TRUE, error |-> FALSE, requirements |-> FALSE,
   rateHeaders |-> FALSE, limit |-> 0, remaining |-> 0, retryAfter |-> 0]

\* a handler that does not ask a request without a payment header to pay
x402Respond_free(req, fail) ==
  IF req.path = "no_such_endpoint" THEN errorResponse(404, 0, 0)
  ELSE IF req.payment = "invalid" THEN errorResponse(400, 0, 0)
  ELSE IF fail # 0 THEN errorResponse(500, 0, 0)
  ELSE paidData

\* a handler behind the per-address limiter of /api/*
x402Respond_limited(req, fail) ==
  IF req.path = "no_such_endpoint" THEN errorResponse(404, 0, 0)
  ELSE IF srv_ipUsed[req.ip] >= IpLimit THEN rateLimitResponse(IpLimit)
  ELSE IF req.payment = "none" THEN paymentRequired
  ELSE IF req.payment = "invalid" THEN errorResponse(400, 0, 0)
  ELSE IF fail # 0 THEN errorResponse(500, 0, 0)
  ELSE paidData

\* the response to a GET on a pay-per-call path: 404 for no endpoint, 402
\* without a payment, 400 for a payment that does not verify, else the data
\* (or 500 when processing fails)
x402Respond(req, fail) ==
  IF req.path = "no_such_endpoint" THEN errorResponse(404, 0, 0)
  ELSE IF req.payment = "none" THEN paymentRequired
  ELSE IF req.payment = "invalid" THEN errorResponse(400, 0, 0)
  ELSE IF fail # 0 THEN errorResponse(500, 0, 0)
  ELSE paidData

\* a client that attaches a payment to every 4xx answer
retriesWithPayment_any4xx(resp) == resp.status >= 400 /\ resp.status < 500

\* x402-fetch pays and retries when, and only when, the answer is 402
retriesWithPayment(resp) == resp.status = 402

\* fetchWithPay(url, {method: "GET"}): the request without a payment header
fetchWithPay_request ==
  /\ xf_pc \in {"idle", "done", "failed"}
  /\ srv_x402Seen < MaxPaidRequests
  /\ \E path \in Paths, fail \in {0, 500} :
       LET req == [path |-> path, payment |-> "none", ip |-> ClientIp]
           resp == x402Respond(req, fail)
       IN /\ xf_log' = <<[req |-> req, resp |-> resp]>>
          /\ xf_pc' = IF retriesWithPayment(resp) THEN "paying" ELSE "done"
  /\ srv_x402Seen' = srv_x402Seen + 1

\* x402-fetch creates the payment and retries the request with the header;
\* the wallet may produce a payment that does not verify
fetchWithPay_retry ==
  /\ xf_pc = "paying"
  /\ \E pay \in {"valid", "invalid"}, fail \in {0, 500} :
       LET req == [xf_log[1].req EXCEPT !.payment = pay]
           resp == x402Respond(req, fail)
       IN xf_log' = Append(xf_log, [req |-> req, resp |-> resp])
  /\ xf_pc' = "done"
  /\ srv_x402Seen' = srv_x402Seen + 1

\* the wallet cannot pay ('insufficient funds'): fetchWithPay throws
fetchWithPay_throw ==
  /\ xf_pc = "paying"
  /\ xf_pc' = "failed"
  /\ UNCHANGED <<srv_x402Seen, xf_log>>

\* ------------------------------------------- the Prixe service: /ws/liveprice
\* One client and its connections, one after the other. The service handles
\* the frames of a connection in the order they were sent.

\* ticker symbols the client subscribes to
Tickers == {"AAPL", "MSFT"}

\* the api_key query parameter: absent, never issued, or an issued key
WsKeys == Keys \cup {"none", "bad_key"}

\* the frames a client sends
ClientFrames ==
  [event : {"subscribe"}, ticker : Tickers]
    \cup [event : {"unsubscribe"}, ticker : {"none"}]

VARIABLES
  ws_state,     \* disconnected | connected | subscribed
  ws_key,       \* the api_key of the latest connection attempt
  ws_conn,      \* connections established so far
  ws_ticker,    \* the ticker the connection is subscribed to, or "none"
  ws_sentLog,   \* the frames the client sent on the connection
  ws_in,        \* those of them the service has not handled yet
  ws_out,       \* the frames the service sent on the connection
  ws_updates    \* ticks of the price stream on the connection

wsVars ==
  <<ws_state, ws_key, ws_conn, ws_ticker, ws_sentLog, ws_in, ws_out,
    ws_updates>>

wsInit ==
  /\ ws_state = "disconnected"
  /\ ws_key = "none"
  /\ ws_conn = 0
  /\ ws_ticker = "none"
  /\ ws_sentLog = <<>>
  /\ ws_in = <<>>
  /\ ws_out = <<>>
  /\ ws_updates = 0

\* WebSocket is a feature of the Pro and Enterprise plans, not of Free
hasWebSocket(k) == k # "free_key"

\* the connection is established for an issued key whose plan has WebSocket
wsAccepts(key) == key \in Keys /\ hasWebSocket(key)

\* {"event": "connect_status", "data": {"connection_id", "status"}}
connectStatus ==
  [event |-> "connect_status", status |-> "connected", ticker |-> "none"]

\* {"event": "error", "data": {"message"}}
errorFrame == [event |-> "error", status |-> "none", ticker |-> "none"]

\* {"event": "price_update", "data": {"ticker", ...}}
priceUpdate(t) == [event |-> "price_update", status |-> "none", ticker |-> t]

\* a service that answers an unsubscribe with an error frame
subscriptionStatus_errorOnUnsubscribe(f, current) ==
  IF f.event = "subscribe"
    THEN [event |-> "subscription_status", status |-> "subscribed",
          ticker |-> f.ticker]
    ELSE errorFrame

\* {"event": "subscription_status", "data": {"status", "ticker"}}, sent in
\* response to client frame f on a connection subscribed to `current`
subscriptionStatus(f, current) ==
  IF f.event = "subscribe"
    THEN [event |-> "subscription_status", status |-> "subscribed",
          ticker |-> f.ticker]
    ELSE [event |-> "subscription_status", status |-> "unsubscribed",
          ticker |-> current]

\* a stream that runs on every open connection
streaming_whenOpen(state) == state # "disconnected"

\* price updates are sent in the `subscribed` state
streaming(state) == state = "subscribed"

\* new WebSocket('wss://api.prixe.io/ws/liveprice?api_key=...'): refused, or
\* established and greeted with connect_status
ws_connect ==
  /\ ws_state = "disconnected"
  /\ ws_conn < MaxConnections
  /\ \E key \in WsKeys :
       /\ ws_key' = key
       /\ IF wsAccepts(key)
            THEN /\ ws_state' = "connected"
                 /\ ws_conn' = ws_conn + 1
                 /\ ws_out' = <<connectStatus>>
                 /\ ws_sentLog' = <<>>
                 /\ ws_updates' = 0
            ELSE UNCHANGED <<ws_state, ws_conn, ws_out, ws_sentLog, ws_updates>>
  /\ UNCHANGED <<ws_ticker, ws_in>>

\* socket.send(JSON.stringify({event: 'subscribe' | 'unsubscribe', ...}))
ws_send ==
  /\ ws_state # "disconnected"
  /\ Len(ws_sentLog) < MaxFrames
  /\ \E f \in ClientFrames :
       /\ ws_sentLog' = Append(ws_sentLog, f)
       /\ ws_in' = Append(ws_in, f)
  /\ UNCHANGED <<ws_state, ws_key, ws_conn, ws_ticker, ws_out, ws_updates>>

\* the service handles the oldest frame it has not handled
ws_handle ==
  /\ ws_state # "disconnected"
  /\ ws_in # <<>>
  /\ LET f == Head(ws_in) IN
       /\ ws_out' = Append(ws_out, subscriptionStatus(f, ws_ticker))
       /\ IF f.event = "subscribe"
            THEN ws_state' = "subscribed" /\ ws_ticker' = f.ticker
            ELSE ws_state' = "connected" /\ ws_ticker' = "none"
  /\ ws_in' = Tail(ws_in)
  /\ UNCHANGED <<ws_key, ws_conn, ws_sentLog, ws_updates>>

\* the stream ticks (every second): a price_update for the subscribed ticker,
\* or an error frame when the price could not be fetched
ws_priceTick ==
  /\ streaming(ws_state)
  /\ ws_updates < MaxUpdates
  /\ \E fetched \in BOOLEAN :
       ws_out' = Append(ws_out,
                        IF fetched THEN priceUpdate(ws_ticker) ELSE errorFrame)
  /\ ws_updates' = ws_updates + 1
  /\ UNCHANGED <<ws_state, ws_key, ws_conn, ws_ticker, ws_sentLog, ws_in>>

\* socket.close(), or the connection is lost: frames in flight are dropped
ws_close ==
  /\ ws_state # "disconnected"
  /\ ws_state' = "disconnected"
  /\ ws_ticker' = "none"
  /\ ws_in' = <<>>
  /\ UNCHANGED <<ws_key, ws_conn, ws_sentLog, ws_out, ws_updates>>

\* ---------------------------------------------------------- TradingDashboard
\* src/docs/endpoints/websocket.md, class TradingDashboard, over the
\* WebSocket objects it creates. A WebSocket is connecting, open, closing or
\* closed; send() throws InvalidStateError while it is connecting and is
\* dropped once it is closing or closed; close() moves a connecting or open
\* socket to closing; messages are delivered only while it is open.

MaxDashSockets == 3
MaxDashOps == 4
MaxDashUpdates == 2

\* the callbacks passed to subscribeTo
Callbacks == {"cb1", "cb2"}
NoCallback == "none"
NoSocket == 0

VARIABLES
  td_sockets,        \* this.sockets: ticker -> socket, NoSocket when absent
  td_priceCallbacks, \* this.priceCallbacks: ticker -> callback
  td_sock,           \* the WebSocket objects created, in creation order
  td_ops,            \* number of method calls made
  td_last,           \* the last method call and how it ended
  td_invoked         \* the callback invocations, in order

tdVars ==
  <<td_sockets, td_priceCallbacks, td_sock, td_ops, td_last, td_invoked>>

NoCall ==
  [op |-> "none", ticker |-> "none", socket |-> NoSocket, had |-> FALSE,
   threw |-> FALSE]

\* constructor: two empty maps
tdInit ==
  /\ td_sockets = [t \in Tickers |-> NoSocket]
  /\ td_priceCallbacks = [t \in Tickers |-> NoCallback]
  /\ td_sock = <<>>
  /\ td_ops = 0
  /\ td_last = NoCall
  /\ td_invoked = <<>>

\* this.sockets.has(ticker)
sockets_has_never(sockets, ticker) == FALSE

sockets_has(sockets, ticker) == sockets[ticker] # NoSocket

\* socket.send(...): throws while the socket is connecting
sendThrows(state) == state = "connecting"

\* socket.close(): the state afterwards
closeCalled(state) ==
  IF state \in {"connecting", "open"} THEN "closing" ELSE state

\* subscribeTo(ticker, callback)
subscribeTo ==
  /\ td_ops < MaxDashOps
  /\ \E ticker \in Tickers, callback \in Callbacks :
       IF sockets_has(td_sockets, ticker)
       THEN /\ td_priceCallbacks' =
                 [td_priceCallbacks EXCEPT ![ticker] = callback]
            /\ td_last' = [op |-> "subscribeTo", ticker |-> ticker,
                           socket |-> td_sockets[ticker], had |-> TRUE,
                           threw |-> FALSE]
            /\ UNCHANGED <<td_sockets, td_sock>>
       ELSE /\ Len(td_sock) < MaxDashSockets
            /\ td_sock' = Append(td_sock,
                 [ticker |-> ticker, state |-> "connecting",
                  unsubscribed |-> FALSE])
            /\ td_sockets' = [td_sockets EXCEPT ![ticker] = Len(td_sock')]
            /\ td_priceCallbacks' =
                 [td_priceCallbacks EXCEPT ![ticker] = callback]
            /\ td_last' = [op |-> "subscribeTo", ticker |-> ticker,
                           socket |-> Len(td_sock'), had |-> FALSE,
                           threw |-> FALSE]
  /\ td_ops' = td_ops + 1
  /\ UNCHANGED td_invoked

\* unsubscribeFrom(ticker): send, close, delete from both maps; a throw of
\* send leaves the method before close and the deletes
unsubscribeFrom ==
  /\ td_ops < MaxDashOps
  /\ \E ticker \in Tickers :
       LET s == td_sockets[ticker] IN
       IF s = NoSocket
       THEN /\ td_last' = [op |-> "unsubscribeFrom", ticker |-> ticker,
                           socket |-> NoSocket, had |-> FALSE,
                           threw |-> FALSE]
            /\ UNCHANGED <<td_sockets, td_priceCallbacks, td_sock>>
       ELSE IF sendThrows(td_sock[s].state)
       THEN /\ td_last' = [op |-> "unsubscribeFrom", ticker |-> ticker,
                           socket |-> s, had |-> TRUE, threw |-> TRUE]
            /\ td_sock' = [td_sock EXCEPT ![s].unsubscribed = TRUE]
            /\ UNCHANGED <<td_sockets, td_priceCallbacks>>
       ELSE /\ td_sock' = [td_sock EXCEPT
                 ![s].state = closeCalled(@), ![s].unsubscribed = TRUE]
            /\ td_sockets' = [td_sockets EXCEPT ![ticker] = NoSocket]
            /\ td_priceCallbacks' =
                 [td_priceCallbacks EXCEPT ![ticker] = NoCallback]
            /\ td_last' = [op |-> "unsubscribeFrom", ticker |-> ticker,
                           socket |-> s, had |-> TRUE, threw |-> FALSE]
  /\ td_ops' = td_ops + 1
  /\ UNCHANGED td_invoked

\* the sockets of this.sockets, which forEach visits in insertion order
mapped == {s \in 1..Len(td_sock) : td_sockets[td_sock[s].ticker] = s}

\* the first socket of the map on which send throws, NoSocket if none
firstThrowing ==
  LET th == {s \in mapped : sendThrows(td_sock[s].state)}
  IN  IF th = {} THEN NoSocket ELSE CHOOSE s \in th : \A u \in th : s <= u

\* disconnect(): send and close on every socket of the map, then clear both
\* maps; a throw of send ends the forEach and leaves the method
disconnect ==
  /\ td_ops < MaxDashOps
  /\ LET f == firstThrowing IN
     IF f = NoSocket
     THEN /\ td_sock' = [s \in 1..Len(td_sock) |->
                IF s \in mapped
                THEN [td_sock[s] EXCEPT !.state = closeCalled(@)]
                ELSE td_sock[s]]
          /\ td_sockets' = [t \in Tickers |-> NoSocket]
          /\ td_priceCallbacks' = [t \in Tickers |-> NoCallback]
          /\ td_last' = [op |-> "disconnect", ticker |-> "none",
                         socket |-> NoSocket, had |-> mapped # {},
                         threw |-> FALSE]
     ELSE /\ td_sock' = [s \in 1..Len(td_sock) |->
                IF s \in mapped /\ s < f
                THEN [td_sock[s] EXCEPT !.state = closeCalled(@)]
                ELSE td_sock[s]]
          /\ td_last' = [op |-> "disconnect", ticker |-> "none",
                         socket |-> f, had |-> TRUE, threw |-> TRUE]
          /\ UNCHANGED <<td_sockets, td_priceCallbacks>>
  /\ td_ops' = td_ops + 1
  /\ UNCHANGED td_invoked

\* the connection of a socket is established: onopen sends the subscribe
dash_onopen ==
  /\ \E s \in 1..Len(td_sock) :
       /\ td_sock[s].state = "connecting"
       /\ td_sock' = [td_sock EXCEPT ![s].state = "open"]
  /\ UNCHANGED <<td_sockets, td_priceCallbacks, td_ops, td_last, td_invoked>>

\* the connection of a socket ends: it fails, the server closes it, or the
\* closing handshake completes; the dashboard has no handler for it
dash_closed ==
  /\ \E s \in 1..Len(td_sock) :
       /\ td_sock[s].state # "closed"
       /\ td_sock' = [td_sock EXCEPT ![s].state = "closed"]
  /\ UNCHANGED <<td_sockets, td_priceCallbacks, td_ops, td_last, td_invoked>>

\* onmessage with a price_update on an open socket: the callback registered
\* for the socket's ticker, if any, is called
dash_onmessage ==
  /\ Len(td_invoked) < MaxDashUpdates
  /\ \E s \in 1..Len(td_sock) :
       /\ td_sock[s].state = "open"
       /\ LET callback == td_priceCallbacks[td_sock[s].ticker] IN
          /\ callback # NoCallback
          /\ td_invoked' = Append(td_invoked,
               [socket |-> s, callback |-> callback,
                unsubscribed |-> td_sock[s].unsubscribed])
  /\ UNCHANGED <<td_sockets, td_priceCallbacks, td_sock, td_ops, td_last>>

\* ----------------------------------------------------------- PriceAlertSystem
\* src/docs/endpoints/websocket.md, class PriceAlertSystem. Alert ids are
\* Date.now().toString(), a millisecond clock that two addAlert calls can
\* read in the same millisecond. The callbacks return normally. A socket on
\* which close() was called delivers no further message, so price updates
\* arrive on the current socket only, for the ticker it subscribed to.

MaxAlertAdds == 3
MaxAlertUpdates == 2

TargetPrices == {2}
Prices == {1, 2, 3}
Directions == {"above", "below"}

\* by how many milliseconds Date.now() has advanced since the last addAlert
ClockSteps == {0, 1}

\* a key of this.alerts that holds no alert
NoAlert == 0

VARIABLES
  al_now,            \* Date.now()
  al_alerts,         \* this.alerts: alertId -> number of the addAlert call
  al_socket,         \* this.socket: "null", "connecting", "open", "closed"
  al_currentTicker,  \* this.currentTicker
  al_regs,           \* per addAlert call: its arguments, its id, its firings
  al_updates         \* number of price updates handled

alVars ==
  <<al_now, al_alerts, al_socket, al_currentTicker, al_regs, al_updates>>

AlertIds == 1..(MaxAlertAdds + 1)

\* constructor: no alerts, socket null, currentTicker null
alInit ==
  /\ al_now = 1
  /\ al_alerts = [id \in AlertIds |-> NoAlert]
  /\ al_socket = "null"
  /\ al_currentTicker = "null"
  /\ al_regs = <<>>
  /\ al_updates = 0

\* addAlert(ticker, targetPrice, direction, callback): the alert is stored
\* under Date.now().toString(); subscribeTo(ticker) closes the socket and
\* opens a new one when the ticker differs from currentTicker
addAlert ==
  /\ Len(al_regs) < MaxAlertAdds
  /\ \E ticker \in Tickers, targetPrice \in TargetPrices,
        direction \in Directions, step \in ClockSteps :
       LET alertId == al_now + step IN
       /\ al_now' = alertId
       /\ al_regs' = Append(al_regs,
            [ticker |-> ticker, targetPrice |-> targetPrice,
             direction |-> direction, alertId |-> alertId,
             fired |-> 0, firedTicker |-> "null", missed |-> FALSE])
       /\ al_alerts' = [al_alerts EXCEPT ![alertId] = Len(al_regs')]
       /\ IF al_currentTicker # ticker
          THEN /\ al_currentTicker' = ticker
               /\ al_socket' = "connecting"
          ELSE UNCHANGED <<al_currentTicker, al_socket>>
  /\ UNCHANGED al_updates

\* the test of checkAlerts for one alert
triggered(direction, targetPrice, currentPrice) ==
  \/ direction = "above" /\ currentPrice >= targetPrice
  \/ direction = "below" /\ currentPrice <= targetPrice

\* the alerts of this.alerts that checkAlerts(currentPrice) fires
firing(currentPrice) ==
  {n \in 1..Len(al_regs) :
     /\ al_alerts[al_regs[n].alertId] = n
     /\ triggered(al_regs[n].direction, al_regs[n].targetPrice, currentPrice)}

\* checkAlerts(currentPrice), called for a price_update of currentTicker:
\* every alert of the map that is triggered has its callback called and is
\* deleted. `missed` records an alert of that ticker, not fired before,
\* whose condition the price meets and whose callback is not called.
checkAlerts(currentPrice) ==
  LET f == firing(currentPrice) IN
  /\ al_alerts' = [id \in AlertIds |->
       IF al_alerts[id] \in f THEN NoAlert ELSE al_alerts[id]]
  /\ al_regs' = [n \in 1..Len(al_regs) |->
       IF n \in f
       THEN [al_regs[n] EXCEPT !.fired = @ + 1,
                               !.firedTicker = al_currentTicker]
       ELSE IF /\ al_regs[n].fired = 0
               /\ al_regs[n].ticker = al_currentTicker
               /\ triggered(al_regs[n].direction, al_regs[n].targetPrice,
                            currentPrice)
       THEN [al_regs[n] EXCEPT !.missed = TRUE]
       ELSE al_regs[n]]

\* the connection of the current socket is established; onopen subscribes
alerts_onopen ==
  /\ al_socket = "connecting"
  /\ al_socket' = "open"
  /\ UNCHANGED <<al_now, al_alerts, al_currentTicker, al_regs, al_updates>>

\* the connection of the current socket ends; the class has no handler
alerts_closed ==
  /\ al_socket \in {"connecting", "open"}
  /\ al_socket' = "closed"
  /\ UNCHANGED <<al_now, al_alerts, al_currentTicker, al_regs, al_updates>>

\* onmessage with a price_update on the open socket
alerts_onmessage ==
  /\ al_socket = "open"
  /\ al_updates < MaxAlertUpdates
  /\ al_updates' = al_updates + 1
  /\ \E currentPrice \in Prices : checkAlerts(currentPrice)
  /\ UNCHANGED <<al_now, al_socket, al_currentTicker>>

\* -------------------------------------------------------------- useStockPrice
\* src/docs/endpoints/websocket.md, the React hook useStockPrice. React runs
\* the cleanup of the previous effect before the effect of a render with a
\* new ticker or apiKey, and on unmount. The state `error` of the hook is
\* left out; price is held as the ticker whose price was last set.

MaxEffects == 3
MaxStaleUpdates == 2

VARIABLES
  hk_mounted,  \* the component is mounted
  hk_ticker,   \* the ticker of the last render
  hk_sock,     \* the sockets the effects created, in creation order
  hk_price,    \* the state `price`
  hk_status,   \* the state `status`
  hk_stale     \* setPrice / setStatus calls made by a handler of a socket
               \* after the cleanup of its effect has run

hkVars == <<hk_mounted, hk_ticker, hk_sock, hk_price, hk_status, hk_stale>>

\* before the first render: useState(null), useState('disconnected')
hkInit ==
  /\ hk_mounted = FALSE
  /\ hk_ticker = "null"
  /\ hk_sock = <<>>
  /\ hk_price = "null"
  /\ hk_status = "disconnected"
  /\ hk_stale = <<>>

\* the cleanup function of the effect that created socket s: unsubscribe and
\* close only if socket.readyState === WebSocket.OPEN
cleanup(sock) ==
  IF sock.state = "open"
  THEN [sock EXCEPT !.state = "closing", !.cleaned = TRUE]
  ELSE [sock EXCEPT !.cleaned = TRUE]

\* the sockets after the cleanup of the last effect, if there was one
afterCleanup ==
  IF hk_sock = <<>> THEN hk_sock
  ELSE [hk_sock EXCEPT ![Len(hk_sock)] = cleanup(@)]

\* a render with a new ticker (the first render mounts the component): the
\* previous effect is cleaned up, the effect creates a socket
useStockPrice_effect ==
  /\ Len(hk_sock) < MaxEffects
  /\ hk_mounted \/ hk_sock = <<>>
  /\ \E ticker \in Tickers :
       /\ ticker # hk_ticker
       /\ hk_ticker' = ticker
       /\ hk_sock' = Append(afterCleanup,
            [ticker |-> ticker, state |-> "connecting", cleaned |-> FALSE])
  /\ hk_mounted' = TRUE
  /\ UNCHANGED <<hk_price, hk_status, hk_stale>>

\* the component unmounts: the last effect is cleaned up
useStockPrice_unmount ==
  /\ hk_mounted
  /\ hk_mounted' = FALSE
  /\ hk_sock' = afterCleanup
  /\ UNCHANGED <<hk_ticker, hk_price, hk_status, hk_stale>>

\* a handler of socket s calls a state setter
setterCalled(s, setter) ==
  IF hk_sock[s].cleaned
  THEN /\ Len(hk_stale) < MaxStaleUpdates
       /\ hk_stale' = Append(hk_stale, [socket |-> s, setter |-> setter])
  ELSE hk_stale' = hk_stale

\* socket.onopen: setStatus('connected'), send the subscribe
hook_onopen ==
  /\ \E s \in 1..Len(hk_sock) :
       /\ hk_sock[s].state = "connecting"
       /\ hk_sock' = [hk_sock EXCEPT ![s].state = "open"]
       /\ hk_status' = "connected"
       /\ setterCalled(s, "setStatus")
  /\ UNCHANGED <<hk_mounted, hk_ticker, hk_price>>

\* socket.onmessage on an open socket: subscription_status sets the status,
\* price_update sets the price
hook_onmessage ==
  /\ \E s \in 1..Len(hk_sock) :
       /\ hk_sock[s].state = "open"
       /\ \/ /\ hk_status' = "subscribed"
             /\ hk_price' = hk_price
             /\ setterCalled(s, "setStatus")
          \/ /\ hk_price' = hk_sock[s].ticker
             /\ hk_status' = hk_status
             /\ setterCalled(s, "setPrice")
  /\ UNCHANGED <<hk_mounted, hk_ticker, hk_sock>>

\* socket.onerror: the connection failed; the close event follows
hook_onerror ==
  /\ \E s \in 1..Len(hk_sock) :
       /\ hk_sock[s].state \in {"connecting", "open"}
       /\ hk_sock' = [hk_sock EXCEPT ![s].state = "failed"]
       /\ hk_status' = "error"
       /\ setterCalled(s, "setStatus")
  /\ UNCHANGED <<hk_mounted, hk_ticker, hk_price>>

\* socket.onclose: after a failure, after close() or closed by the server
hook_onclose ==
  /\ \E s \in 1..Len(hk_sock) :
       /\ hk_sock[s].state \in {"open", "closing", "failed"}
       /\ hk_sock' = [hk_sock EXCEPT ![s].state = "closed"]
       /\ hk_status' = "disconnected"
       /\ setterCalled(s, "setStatus")
  /\ UNCHANGED <<hk_mounted, hk_ticker, hk_price>>

\* ------------------------------------------------------ reconnection handlers
\* src/docs/endpoints/websocket.md, "Connection Errors": socket.onerror,
\* socket.onclose and reconnect() on every connection that createWebSocket()
\* creates. A connection that fails gets an error event followed by a close
\* event with a code other than 1000.

MaxReconnectConns == 4

CloseCodes == {"1000", "abnormal"}

VARIABLES
  rn_conn  \* the connections created, in order: state, events, timers

rnVars == <<rn_conn>>

NewConnection(from) ==
  [state |-> "connecting", error |-> FALSE, close |-> "none",
   timers |-> {}, reconnects |-> 0, from |-> from]

\* the first createWebSocket() has run
rnInit == rn_conn = <<NewConnection(0)>>

\* the connection is established
reconnect_onopen ==
  \E c \in 1..Len(rn_conn) :
    /\ rn_conn[c].state = "connecting"
    /\ rn_conn' = [rn_conn EXCEPT ![c].state = "open"]

\* socket.onerror: setTimeout(reconnect, 5000)
reconnect_onerror ==
  \E c \in 1..Len(rn_conn) :
    /\ rn_conn[c].state \in {"connecting", "open"}
    /\ rn_conn' = [rn_conn EXCEPT ![c].state = "errored", ![c].error = TRUE,
                                  ![c].timers = @ \cup {"5000"}]

\* the timers socket.onclose sets for a close code
oncloseTimers(code) == IF code # "1000" THEN {"3000"} ELSE {}

\* socket.onclose: after an error with an abnormal code, else with any code
reconnect_onclose ==
  \E c \in 1..Len(rn_conn), code \in CloseCodes :
    /\ \/ rn_conn[c].state = "open"
       \/ rn_conn[c].state = "errored" /\ code = "abnormal"
    /\ rn_conn' = [rn_conn EXCEPT ![c].state = "closed", ![c].close = code,
                                  ![c].timers = @ \cup oncloseTimers(code)]

\* a timer fires: reconnect() calls createWebSocket()
reconnect ==
  \E c \in 1..Len(rn_conn) : \E timer \in rn_conn[c].timers :
    /\ Len(rn_conn) < MaxReconnectConns
    /\ rn_conn' = Append(
         [rn_conn EXCEPT ![c].timers = @ \ {timer}, ![c].reconnects = @ + 1],
         NewConnection(c))

\* -------------------------------------------------------- rateLimitedRequests
\* src/unnamed/part_002, rateLimitedRequests(api, requests, delayMs), against
\* a millisecond clock. Request k of the array resolves with "data" or
\* rejects with an Error.

MaxRequests == 3

DelayChoices == {0, 100}
RequestDurations == {0, 50}

VARIABLES
  rr_pc,       \* "idle", "requesting", "delaying", "returned"
  rr_count,    \* requests.length
  rr_delayMs,  \* delayMs
  rr_now,      \* the clock, in milliseconds
  rr_index,    \* position of the for...of loop in requests
  rr_wake,     \* when the pending setTimeout fires
  rr_results,  \* results
  rr_log       \* per request called: its index, start, end and outcome

rrVars ==
  <<rr_pc, rr_count, rr_delayMs, rr_now, rr_index, rr_wake, rr_results,
    rr_log>>

rrInit ==
  /\ rr_pc = "idle"
  /\ rr_count = 0
  /\ rr_delayMs = 0
  /\ rr_now = 0
  /\ rr_index = 0
  /\ rr_wake = 0
  /\ rr_results = <<>>
  /\ rr_log = <<>>

\* the head of the for...of loop at index i of count requests: call the
\* request, or leave the loop and return results
loopHead(i, count) ==
  IF i <= count
  THEN /\ rr_pc' = "requesting"
       /\ rr_index' = i
       /\ rr_log' = Append(rr_log,
            [request |-> i, start |-> rr_now', end |-> rr_now', ok |-> FALSE])
  ELSE /\ rr_pc' = "returned"
       /\ rr_index' = rr_index
       /\ rr_log' = rr_log

\* rateLimitedRequests(api, requests, delayMs) is called
rateLimitedRequests ==
  /\ rr_pc = "idle"
  /\ \E count \in 0..MaxRequests, delayMs \in DelayChoices :
       /\ rr_count' = count
       /\ rr_delayMs' = delayMs
       /\ rr_now' = rr_now
       /\ loopHead(1, count)
  /\ UNCHANGED <<rr_wake, rr_results>>

\* whether a resolved request is followed by the setTimeout
delaysAfterSuccess(delayMs) == delayMs > 0

\* whether a rejected request, handled by the catch block, is followed by it
delaysAfterFailure(delayMs) == FALSE

\* the awaited request has settled: push its result or null, then wait for
\* the timer or go to the next request
settled(resolved, delays) ==
  /\ rr_pc = "requesting"
  /\ \E d \in RequestDurations : rr_now' = rr_now + d
  /\ rr_results' = Append(rr_results, IF resolved THEN "data" ELSE "null")
  /\ IF delays
     THEN /\ rr_pc' = "delaying"
          /\ rr_wake' = rr_now' + rr_delayMs
          /\ rr_log' = [rr_log EXCEPT
               ![Len(rr_log)].end = rr_now', ![Len(rr_log)].ok = resolved]
          /\ UNCHANGED rr_index
     ELSE /\ rr_wake' = rr_wake
          /\ rr_pc' = IF rr_index + 1 <= rr_count
                      THEN "requesting" ELSE "returned"
          /\ rr_index' = IF rr_index + 1 <= rr_count
                         THEN rr_index + 1 ELSE rr_index
          /\ rr_log' =
               LET done == [rr_log EXCEPT
                     ![Len(rr_log)].end = rr_now', ![Len(rr_log)].ok = resolved]
               IN  IF rr_index + 1 <= rr_count
                   THEN Append(done, [request |-> rr_index + 1,
                          start |-> rr_now', end |-> rr_now', ok |-> FALSE])
                   ELSE done
  /\ UNCHANGED <<rr_count, rr_delayMs>>

\* `await request()` resolves: results.push(result) and the delay
request_resolves == settled(TRUE, delaysAfterSuccess(rr_delayMs))

\* `await request()` rejects: the catch block does results.push(null)
request_rejects == settled(FALSE, delaysAfterFailure(rr_delayMs))

\* the timer of the delay fires: the loop goes to the next request
delay_timer ==
  /\ rr_pc = "delaying"
  /\ rr_now' = rr_wake
  /\ loopHead(rr_index + 1, rr_count)
  /\ UNCHANGED <<rr_count, rr_delayMs, rr_wake, rr_results>>

\* ------------------------------------------------------- AutonomousStockAgent
\* src/examples/x402-integration/complete-example.js,
\* AutonomousStockAgent.runAutonomousTrading. Prices are whole dollars; the
\* watchlist is cut to its first two tickers. A position holds its shares
\* and, in place of avgPrice, the cost basis shares * avgPrice.

MaxAgentSteps == 7

Watchlist == <<"AAPL", "MSFT">>
AgentPrices == {30, 50}
Recommendations == {"buy", "sell", "hold"}
Strategies == {"momentum", "other"}

\* what analyzeStock returns: null, or an analysis
NoAnalysis == [recommendation |-> "null", currentPrice |-> 0]
Analyses ==
  {NoAnalysis} \cup
  [recommendation : Recommendations, currentPrice : AgentPrices]

NoPosition == [held |-> FALSE, shares |-> 0, basis |-> 0]

VARIABLES
  ag_pc,         \* "idle", "analyzing" (the for loop), "valuing"
  ag_strategy,   \* the argument `strategy`
  ag_index,      \* position of the for loop in the watchlist
  ag_cash,       \* cash
  ag_portfolio,  \* portfolio: ticker -> position, NoPosition when absent
  ag_last,       \* the ticker and analysis of the last loop step
  ag_steps       \* number of steps taken

agVars ==
  <<ag_pc, ag_strategy, ag_index, ag_cash, ag_portfolio, ag_last, ag_steps>>

\* before the call; cash and portfolio as the call initialises them
agInit ==
  /\ ag_pc = "idle"
  /\ ag_strategy = "momentum"
  /\ ag_index = 1
  /\ ag_cash = 10000
  /\ ag_portfolio = [t \in Tickers |-> NoPosition]
  /\ ag_last = [kind |-> "none", ticker |-> "none", analysis |-> NoAnalysis]
  /\ ag_steps = 0

\* runAutonomousTrading(strategy) is called
runAutonomousTrading ==
  /\ ag_pc = "idle"
  /\ ag_pc' = "analyzing"
  /\ \E strategy \in Strategies : ag_strategy' = strategy
  /\ ag_index' = 1
  /\ ag_cash' = 10000
  /\ ag_portfolio' = [t \in Tickers |-> NoPosition]
  /\ UNCHANGED <<ag_last, ag_steps>>

\* analysis.recommendation === 'buy' && cash > analysis.currentPrice * 100
canBuy_unchecked(analysis, cash) == analysis.recommendation = "buy"

canBuy(analysis, cash) ==
  analysis.recommendation = "buy" /\ cash > analysis.currentPrice * 100

\* analysis.recommendation === 'sell' && currentPosition.shares > 0
canSell(analysis, position) ==
  analysis.recommendation = "sell" /\ position.shares > 0

\* one pass of the for loop over the watchlist: analyzeStock, then the
\* momentum strategy buys 100 shares or sells the whole position
trade ==
  /\ ag_pc = "analyzing"
  /\ ag_steps < MaxAgentSteps
  /\ ag_steps' = ag_steps + 1
  /\ \E analysis \in Analyses :
       LET ticker == Watchlist[ag_index]
           currentPosition == ag_portfolio[ticker]
           shares == 100
           cost == shares * analysis.currentPrice
           proceeds == currentPosition.shares * analysis.currentPrice
       IN
       /\ ag_last' = [kind |-> "trade", ticker |-> ticker,
                      analysis |-> analysis]
       /\ IF analysis = NoAnalysis \/ ag_strategy # "momentum"
          THEN UNCHANGED <<ag_cash, ag_portfolio>>
          ELSE IF canBuy(analysis, ag_cash)
          THEN /\ ag_cash' = ag_cash - cost
               /\ ag_portfolio' = [ag_portfolio EXCEPT ![ticker] =
                    [held |-> TRUE,
                     shares |-> currentPosition.shares + shares,
                     basis |-> currentPosition.basis + cost]]
          ELSE IF canSell(analysis, currentPosition)
          THEN /\ ag_cash' = ag_cash + proceeds
               /\ ag_portfolio' = [ag_portfolio EXCEPT ![ticker] = NoPosition]
          ELSE UNCHANGED <<ag_cash, ag_portfolio>>
  /\ IF ag_index < Len(Watchlist)
     THEN /\ ag_index' = ag_index + 1
          /\ ag_pc' = ag_pc
     ELSE /\ ag_index' = 1
          /\ ag_pc' = "valuing"
  /\ UNCHANGED ag_strategy

\* the total portfolio value is computed and logged, or getCurrentPrice
\* throws and the catch block logs; after the wait the next cycle starts
valuation ==
  /\ ag_pc = "valuing"
  /\ ag_steps < MaxAgentSteps
  /\ ag_steps' = ag_steps + 1
  /\ ag_pc' = "analyzing"
  /\ ag_last' = [kind |-> "valuation", ticker |-> "none",
                 analysis |-> NoAnalysis]
  /\ UNCHANGED <<ag_strategy, ag_index, ag_cash, ag_portfolio>>

\* ------------------------------------------------------------ specifications

vars ==
  <<gl_pc, gl_retries, gl_attempt, gl_requests, gl_hist, gl_thrown,
    eb_variant, eb_pc, eb_max, eb_attempt, eb_calls, eb_hist, eb_thrown,
    now, cb_threshold, cb_timeout, cb_state, cb_failureCount, cb_nextAttempt,
    cb_executes, cb_calls, cb_fnCalls,
    srv_keyUsed, srv_ipUsed, api_req, api_resp,
    srv_x402Seen, xf_pc, xf_log,
    ws_state, ws_key, ws_conn, ws_ticker, ws_sentLog, ws_in, ws_out,
    ws_updates,
    rc_made, rc_ttl, rc_cache, rc_now, rc_last, rc_stored,
    rl_pc, rl_hist, rl_thrown,
    pa_resp, pa_n, pa_js, pa_py,
    gp_made, gp_calls, gp_requests,
    rq_added, rq_queue, rq_processing, rq_pc, rq_current, rq_req, rq_promise,
    rq_started,
    tq_made, tq_rps, tq_now, tq_lastRequest, tq_added, tq_queue, tq_processing, tq_pc, tq_wake, tq_starts, tq_ends,
    ra_made, ra_threshold, ra_alertSent, ra_calls,
    td_sockets, td_priceCallbacks, td_sock, td_ops, td_last, td_invoked,
    al_now, al_alerts, al_socket, al_currentTicker, al_regs, al_updates,
    hk_mounted, hk_ticker, hk_sock, hk_price, hk_status, hk_stale,
    rn_conn,
    rr_pc, rr_count, rr_delayMs, rr_now, rr_index, rr_wake, rr_results, rr_log,
    ag_pc, ag_strategy, ag_index, ag_cash, ag_portfolio, ag_last, ag_steps>>

Init ==
  /\ glInit /\ ebInit /\ cbInit /\ apiInit /\ x402Init /\ wsInit
  /\ rcInit /\ rlInit /\ paInit /\ gpInit /\ rqInit
  /\ tqInit
  /\ raInit
  /\ tdInit
  /\ alInit
  /\ hkInit
  /\ rnInit
  /\ rrInit
  /\ agInit

\* the variables of the documented applications
appVars ==
  <<tqVars, raVars, tdVars, alVars, hkVars, rnVars, rrVars, agVars>>

\* the variables of the utilities documented beside the client and service
toolVars == <<rcVars, rlVars, paVars, gpVars, rqVars>>
utilVars == <<toolVars, appVars>>

\* the variables each specification leaves alone

exceptClient == <<ebVars, cbVars, srvVars, x402Vars, wsVars, utilVars>>
exceptBackoff == <<glVars, cbVars, srvVars, x402Vars, wsVars, utilVars>>
exceptBreaker == <<glVars, ebVars, srvVars, x402Vars, wsVars, utilVars>>
exceptService == <<glVars, ebVars, cbVars, wsVars, utilVars>>
exceptStream == <<glVars, ebVars, cbVars, srvVars, x402Vars, utilVars>>
coreVars == <<glVars, ebVars, cbVars, srvVars, x402Vars, wsVars>>
exceptCache == <<coreVars, rlVars, paVars, gpVars, rqVars, appVars>>
exceptHandler == <<coreVars, rcVars, paVars, gpVars, rqVars, appVars>>
exceptParity == <<coreVars, rcVars, rlVars, gpVars, rqVars, appVars>>
exceptCachedPrice == <<coreVars, rlVars, paVars, rqVars, appVars>>
exceptQueue == <<coreVars, rcVars, rlVars, paVars, gpVars, appVars>>
exceptTimedQueue ==
  <<coreVars, toolVars, raVars, tdVars, alVars, hkVars, rnVars, rrVars,
    agVars>>
exceptAlert ==
  <<coreVars, toolVars, tqVars, tdVars, alVars, hkVars, rnVars, rrVars,
    agVars>>
exceptDashboard ==
  <<coreVars, toolVars, tqVars, raVars, alVars, hkVars, rnVars, rrVars,
    agVars>>
exceptAlerts ==
  <<coreVars, toolVars, tqVars, raVars, tdVars, hkVars, rnVars, rrVars,
    agVars>>
exceptHook ==
  <<coreVars, toolVars, tqVars, raVars, tdVars, alVars, rnVars, rrVars,
    agVars>>
exceptReconnect ==
  <<coreVars, toolVars, tqVars, raVars, tdVars, alVars, hkVars, rrVars,
    agVars>>
exceptRateLimited ==
  <<coreVars, toolVars, tqVars, raVars, tdVars, alVars, hkVars, rnVars,
    agVars>>
exceptAgent ==
  <<coreVars, toolVars, tqVars, raVars, tdVars, alVars, hkVars, rnVars,
    rrVars>>

\* the documented JavaScript client making getLastSold calls
NextClient ==
  \/ getLastSold_call /\ UNCHANGED exceptClient
  \/ getLastSold_attempt /\ UNCHANGED exceptClient
  \/ getLastSold_wake /\ UNCHANGED exceptClient

SpecClient == Init /\ [][NextClient]_vars

\* exponentialBackoff calls
NextBackoff ==
  \/ exponentialBackoff_call /\ UNCHANGED exceptBackoff
  \/ exponentialBackoff_attempt /\ UNCHANGED exceptBackoff
  \/ exponentialBackoff_wake /\ UNCHANGED exceptBackoff

SpecBackoff == Init /\ [][NextBackoff]_vars

\* one CircuitBreaker whose execute calls overlap in any way
NextBreaker ==
  \/ CircuitBreaker_constructor /\ UNCHANGED exceptBreaker
  \/ Tick /\ UNCHANGED exceptBreaker
  \/ execute /\ UNCHANGED exceptBreaker
  \/ \E id \in CallIds : execute_onSuccess(id) /\ UNCHANGED exceptBreaker
  \/ \E id \in CallIds : execute_onFailure(id) /\ UNCHANGED exceptBreaker

SpecBreaker == Init /\ [][NextBreaker]_vars

\* one CircuitBreaker whose caller awaits each execute before the next
NextBreakerSeq ==
  \/ CircuitBreaker_constructor /\ UNCHANGED exceptBreaker
  \/ Tick /\ UNCHANGED exceptBreaker
  \/ noneInFlight /\ execute /\ UNCHANGED exceptBreaker
  \/ \E id \in CallIds : execute_onSuccess(id) /\ UNCHANGED exceptBreaker
  \/ \E id \in CallIds : execute_onFailure(id) /\ UNCHANGED exceptBreaker

SpecBreakerSeq == Init /\ [][NextBreakerSeq]_vars

\* the service answering /api/* requests
NextApi ==
  \/ api_request /\ UNCHANGED <<x402Vars, exceptService>>
  \/ windowReset /\ UNCHANGED <<x402Vars, exceptService>>

SpecApi == Init /\ [][NextApi]_vars

\* the service answering pay-per-call requests made through x402-fetch
NextPay ==
  \/ fetchWithPay_request /\ UNCHANGED <<srvVars, exceptService>>
  \/ fetchWithPay_retry /\ UNCHANGED <<srvVars, exceptService>>
  \/ fetchWithPay_throw /\ UNCHANGED <<srvVars, exceptService>>

SpecPay == Init /\ [][NextPay]_vars

\* both kinds of request, in any order
NextService == NextApi \/ NextPay

SpecService == Init /\ [][NextService]_vars

\* one ResponseCache used directly
NextCache ==
  \/ ResponseCache_constructor /\ UNCHANGED exceptCache
  \/ cacheTick /\ UNCHANGED exceptCache
  \/ ResponseCache_get /\ UNCHANGED exceptCache
  \/ ResponseCache_set /\ UNCHANGED exceptCache
  \/ ResponseCache_clear /\ UNCHANGED exceptCache

SpecCache == Init /\ [][NextCache]_vars

\* RateLimitHandler.makeRequest calls, one after the other
NextHandler ==
  \/ makeRequest_call /\ UNCHANGED exceptHandler
  \/ makeRequest_first /\ UNCHANGED exceptHandler
  \/ makeRequest_wake /\ UNCHANGED exceptHandler
  \/ makeRequest_second /\ UNCHANGED exceptHandler

SpecHandler == Init /\ [][NextHandler]_vars

\* the JavaScript and the Python client side by side
NextParity ==
  \/ parity_call /\ UNCHANGED exceptParity
  \/ parity_getLastSold_attempt /\ UNCHANGED exceptParity
  \/ parity_get_last_sold_attempt /\ UNCHANGED exceptParity

SpecParity == Init /\ [][NextParity]_vars

\* getCachedPrice calls that overlap in any way
NextCachedPrice ==
  \/ ResponseCache_constructor /\ UNCHANGED <<exceptCachedPrice, gpVars>>
  \/ cacheTick /\ UNCHANGED <<exceptCachedPrice, gpVars>>
  \/ getCachedPrice /\ UNCHANGED exceptCachedPrice
  \/ \E id \in PriceCallIds :
       getCachedPrice_resolve(id) /\ UNCHANGED exceptCachedPrice
  \/ \E id \in PriceCallIds :
       getCachedPrice_reject(id) /\ UNCHANGED exceptCachedPrice

SpecCachedPrice == Init /\ [][NextCachedPrice]_vars

\* one RequestQueue; timers fire and every requestFn settles
NextQueue ==
  \/ RequestQueue_add /\ UNCHANGED exceptQueue
  \/ process_timer /\ UNCHANGED exceptQueue
  \/ requestFn_resolves /\ UNCHANGED exceptQueue
  \/ requestFn_rejects /\ UNCHANGED exceptQueue

SpecQueue ==
  /\ Init /\ [][NextQueue]_vars
  /\ WF_vars(process_timer /\ UNCHANGED exceptQueue)
  /\ WF_vars((requestFn_resolves \/ requestFn_rejects) /\ UNCHANGED exceptQueue)

\* one RequestQueue against the clock
NextTimedQueue ==
  \/ timed_constructor /\ UNCHANGED exceptTimedQueue
  \/ timed_add /\ UNCHANGED exceptTimedQueue
  \/ timed_timer /\ UNCHANGED exceptTimedQueue
  \/ timed_settle /\ UNCHANGED exceptTimedQueue

SpecTimedQueue == Init /\ [][NextTimedQueue]_vars

\* one RateLimitAlert and the checkAndAlert calls made on it
NextAlert ==
  \/ RateLimitAlert_constructor /\ UNCHANGED exceptAlert
  \/ checkAndAlert /\ UNCHANGED exceptAlert

SpecAlert == Init /\ [][NextAlert]_vars

\* one TradingDashboard, its method calls and the events of its sockets
NextDashboard ==
  \/ subscribeTo /\ UNCHANGED exceptDashboard
  \/ unsubscribeFrom /\ UNCHANGED exceptDashboard
  \/ disconnect /\ UNCHANGED exceptDashboard
  \/ dash_onopen /\ UNCHANGED exceptDashboard
  \/ dash_closed /\ UNCHANGED exceptDashboard
  \/ dash_onmessage /\ UNCHANGED exceptDashboard

SpecDashboard == Init /\ [][NextDashboard]_vars

\* one PriceAlertSystem, its addAlert calls and the events of its socket
NextAlerts ==
  \/ addAlert /\ UNCHANGED exceptAlerts
  \/ alerts_onopen /\ UNCHANGED exceptAlerts
  \/ alerts_closed /\ UNCHANGED exceptAlerts
  \/ alerts_onmessage /\ UNCHANGED exceptAlerts

SpecAlerts == Init /\ [][NextAlerts]_vars

\* one component using useStockPrice and the events of its sockets
NextHook ==
  \/ useStockPrice_effect /\ UNCHANGED exceptHook
  \/ useStockPrice_unmount /\ UNCHANGED exceptHook
  \/ hook_onopen /\ UNCHANGED exceptHook
  \/ hook_onmessage /\ UNCHANGED exceptHook
  \/ hook_onerror /\ UNCHANGED exceptHook
  \/ hook_onclose /\ UNCHANGED exceptHook

SpecHook == Init /\ [][NextHook]_vars

\* the connections created by createWebSocket() and their events
NextReconnect ==
  \/ reconnect_onopen /\ UNCHANGED exceptReconnect
  \/ reconnect_onerror /\ UNCHANGED exceptReconnect
  \/ reconnect_onclose /\ UNCHANGED exceptReconnect
  \/ reconnect /\ UNCHANGED exceptReconnect

SpecReconnect == Init /\ [][NextReconnect]_vars

\* one call of rateLimitedRequests
NextRateLimited ==
  \/ rateLimitedRequests /\ UNCHANGED exceptRateLimited
  \/ request_resolves /\ UNCHANGED exceptRateLimited
  \/ request_rejects /\ UNCHANGED exceptRateLimited
  \/ delay_timer /\ UNCHANGED exceptRateLimited

SpecRateLimited == Init /\ [][NextRateLimited]_vars

\* one call of runAutonomousTrading
NextAgent ==
  \/ runAutonomousTrading /\ UNCHANGED exceptAgent
  \/ trade /\ UNCHANGED exceptAgent
  \/ valuation /\ UNCHANGED exceptAgent

SpecAgent == Init /\ [][NextAgent]_vars

\* one client streaming prices over /ws/liveprice; the service does not leave
\* a frame of an open connection unhandled for ever
NextStream ==
  \/ ws_connect /\ UNCHANGED exceptStream
  \/ ws_send /\ UNCHANGED exceptStream
  \/ ws_handle /\ UNCHANGED exceptStream
  \/ ws_priceTick /\ UNCHANGED exceptStream
  \/ ws_close /\ UNCHANGED exceptStream

SpecStream ==
  Init /\ [][NextStream]_vars /\ WF_vars(ws_handle /\ UNCHANGED exceptStream)

\* the two ways into the service that take an API key
NextAuth ==
  \/ api_request /\ UNCHANGED <<x402Vars, exceptService>>
  \/ windowReset /\ UNCHANGED <<x402Vars, exceptService>>
  \/ ws_connect /\ UNCHANGED exceptStream
  \/ ws_close /\ UNCHANGED exceptStream

SpecAuth == Init /\ [][NextAuth]_vars

\* ---------------------------------------------------------------- claim C1

\* C1: a GET on a pay-per-call endpoint without a payment header is answered
\* with 402 and the payment requirements; x402-fetch then retries the same
\* request once, with a payment header; data is sent only in answer to a
\* request whose payment the service validated.
C1_PayPerCall ==
  /\ Len(xf_log) <= 2
  /\ \A i \in 1..Len(xf_log) :
       LET x == xf_log[i] IN
       /\ (x.req.path # "no_such_endpoint" /\ x.req.payment = "none") =>
            /\ x.resp.status = 402
            /\ x.resp.requirements
            /\ ~x.resp.data
       /\ x.resp.data => x.req.payment = "valid" /\ x.resp.status = 200
       /\ x.resp.status = 200 => x.req.payment = "valid"
  /\ Len(xf_log) = 2 =>
       /\ xf_log[1].req.payment = "none"
       /\ xf_log[1].resp.status = 402
       /\ xf_log[2].req.payment # "none"
       /\ xf_log[2].req.path = xf_log[1].req.path
       /\ xf_log[2].req.ip = xf_log[1].req.ip
       /\ xf_pc = "done"
  /\ xf_pc = "paying" => Len(xf_log) = 1 /\ xf_log[1].resp.status = 402
  /\ (xf_pc = "done" /\ Len(xf_log) = 1) => xf_log[1].resp.status # 402

\* a fetchWithPay call that was answered 402, retried with a payment that
\* verified, and received the data
C1_Witness ==
  /\ xf_pc = "done"
  /\ Len(xf_log) = 2
  /\ xf_log[1].resp.status = 402
  /\ xf_log[2].req.payment = "valid"
  /\ xf_log[2].resp.data

\* ---------------------------------------------------------------- claim C2

\* the subscription_status frames among the frames fs
C2_Acks(fs) == SelectSeq(fs, LAMBDA f : f.event = "subscription_status")

\* C2: every price_update the service sends names the ticker of the latest
\* client frame it has acknowledged, which is a subscribe frame acknowledged
\* with status subscribed: there is none before the first acknowledgement,
\* none after an acknowledged unsubscribe, and no frame at all is sent on a
\* closed connection.
C2_PriceUpdatesOnlyWhileSubscribed ==
  /\ [](\A i \in 1..Len(ws_out) :
          ws_out[i].event = "price_update" =>
            LET k == Len(C2_Acks(SubSeq(ws_out, 1, i - 1))) IN
            /\ k >= 1
            /\ k <= Len(ws_sentLog)
            /\ ws_sentLog[k].event = "subscribe"
            /\ ws_sentLog[k].ticker = ws_out[i].ticker
            /\ C2_Acks(ws_out)[k].status = "subscribed"
            /\ C2_Acks(ws_out)[k].ticker = ws_out[i].ticker)
  /\ [][ws_state' = "disconnected" => ws_out' = ws_out]_vars

\* price updates for AAPL, then, after a second subscribe was acknowledged,
\* for MSFT
C2_Witness ==
  /\ Len(ws_out) = 5
  /\ ws_out[2].event = "subscription_status" /\ ws_out[2].ticker = "AAPL"
  /\ ws_out[3] = [event |-> "price_update", status |-> "none", ticker |-> "AAPL"]
  /\ ws_out[4].event = "subscription_status" /\ ws_out[4].ticker = "MSFT"
  /\ ws_out[5] = [event |-> "price_update", status |-> "none", ticker |-> "MSFT"]

\* ---------------------------------------------------------------- claim C3

\* the answers sent on the connection, and their number
C3_AnswerFrames == SelectSeq(ws_out, LAMBDA f : f.event = "subscription_status")

C3_Answers == Len(C3_AnswerFrames)

\* C3: connect_status is the first frame the service sends on an established
\* connection (and is sent with its establishment); the n-th frame the client
\* sends on a connection is answered by the n-th subscription_status, which
\* is sent eventually unless the connection closes first.
C3_ConnectStatusThenAnswers ==
  /\ [](ws_state # "disconnected" => Len(ws_out) >= 1)
  /\ [](\A i \in 1..Len(ws_out) : ws_out[i].event = "connect_status" <=> i = 1)
  /\ [](C3_Answers <= Len(ws_sentLog))
  /\ [](\A n \in 1..C3_Answers :
          C3_AnswerFrames[n].status =
            (IF ws_sentLog[n].event = "subscribe"
               THEN "subscribed" ELSE "unsubscribed"))
  /\ [](Len(ws_in) + C3_Answers = Len(ws_sentLog) \/ ws_state = "disconnected")
  /\ \A c \in 1..MaxConnections, n \in 1..MaxFrames :
       (ws_conn = c /\ ws_state # "disconnected" /\ Len(ws_sentLog) >= n)
         ~> (ws_conn # c \/ ws_state = "disconnected" \/ C3_Answers >= n)

\* on the second connection, a subscribe and an unsubscribe were both
\* answered after the connect_status
C3_Witness ==
  /\ ws_conn = 2
  /\ ws_state = "connected"
  /\ Len(ws_sentLog) = 2
  /\ ws_sentLog[2].event = "unsubscribe"
  /\ ws_in = <<>>
  /\ Len(ws_out) = 3
  /\ ws_out[1].event = "connect_status"
  /\ ws_out[2].status = "subscribed"
  /\ ws_out[3].status = "unsubscribed"

\* ---------------------------------------------------------------- claim C4

\* the quota of key k or of address ip is used up
C4_Exhausted(k, ip) ==
  srv_keyUsed[k] >= planLimit(k) \/ srv_ipUsed[ip] >= IpLimit

\* C4: an /api/* request made with an issued key when the key's quota or the
\* address's quota for the window is used up is answered with 429, a
\* Retry-After header and X-RateLimit-Remaining: 0, and without data; in every
\* response that carries the headers 0 <= Remaining <= Limit.
C4_RateLimited ==
  /\ [](api_resp.rateHeaders =>
          0 <= api_resp.remaining /\ api_resp.remaining <= api_resp.limit)
  /\ [](api_resp.status = 429 =>
          /\ ~api_resp.data
          /\ api_resp.error
          /\ api_resp.retryAfter > 0
          /\ api_resp.rateHeaders
          /\ api_resp.remaining = 0)
  /\ [][ (/\ api_request
          /\ api_req'.auth.present /\ api_req'.auth.bearer
          /\ api_req'.auth.key \in Keys
          /\ C4_Exhausted(api_req'.auth.key, api_req'.ip))
           => api_resp'.status = 429 ]_vars

\* a 429 for a key that has quota left, sent because the address's quota was
\* used up through the other key
C4_Witness ==
  /\ api_resp.status = 429
  /\ api_resp.limit = IpLimit
  /\ api_req.auth.key = "enterprise_key"
  /\ srv_keyUsed["enterprise_key"] < EnterpriseLimit
  /\ srv_keyUsed["free_key"] > 0
  /\ srv_ipUsed[api_req.ip] = IpLimit

\* ---------------------------------------------------------------- claim C5

\* C5: a pay-per-call request that carries a valid payment is never answered
\* with 429, whatever the number of requests the client or its address has
\* made.
C5_NoLimitOnPaid ==
  \A i \in 1..Len(xf_log) :
    xf_log[i].req.payment = "valid" => xf_log[i].resp.status # 429

\* a paid request that received the data although its address had used up
\* its /api/* quota and had already made other pay-per-call requests
C5_Witness ==
  /\ Len(xf_log) = 2
  /\ xf_log[2].req.payment = "valid"
  /\ xf_log[2].resp.data
  /\ srv_ipUsed[ClientIp] >= IpLimit
  /\ srv_x402Seen >= 4

\* ---------------------------------------------------------------- claim C6

\* an Authorization header that is missing, lacks 'Bearer ' or carries a key
\* that was not issued
C6_BadAuthorization(auth) ==
  \/ ~auth.present
  \/ ~auth.bearer
  \/ auth.key \notin {"free_key", "enterprise_key"}

\* C6: an /api/* request with a missing Authorization header, one without the
\* 'Bearer ' prefix or one with an invalid key is answered with 401 and an
\* {error, status} body and without data; no /ws/liveprice connection is
\* established for an api_key that is absent or was not issued.
C6_Unauthorized ==
  /\ (api_resp # NoResponse /\ C6_BadAuthorization(api_req.auth)) =>
       /\ api_resp.status = 401
       /\ api_resp.error
       /\ ~api_resp.data
  /\ ws_state # "disconnected" => ws_key \in {"free_key", "enterprise_key"}
  /\ ws_key \notin {"free_key", "enterprise_key"} => ws_state = "disconnected"

\* an issued key sent without 'Bearer ' was answered 401 although key and
\* address had quota left, and a connection attempt with a key that was never
\* issued, made after an earlier connection, was refused
C6_Witness ==
  /\ api_resp.status = 401
  /\ api_req.auth.present /\ ~api_req.auth.bearer
  /\ api_req.auth.key = "enterprise_key"
  /\ srv_keyUsed["enterprise_key"] = 0
  /\ ws_key = "bad_key"
  /\ ws_conn = 1
  /\ ws_state = "disconnected"

\* ---------------------------------------------------------------- claim C7

Retryable == {"RateLimitError", "ServerError"}

\* the wait C7 states for the error of attempt i, in ms
C7_StatedWait(h, i) ==
  IF h.err.cls = "RateLimitError"
    THEN IF h.resp.retryAfter = Null THEN 60 * 1000
         ELSE ToNumber(h.resp.retryAfter) * 1000
    ELSE Pow2(i) * 1000

\* C7: getLastSold(ticker, retries) with retries >= 1 sends at most `retries`
\* requests; a further request follows only a RateLimitError or a ServerError,
\* after a wait of Retry-After seconds (60 when the header is absent) resp.
\* 2^attempt seconds; any other error is thrown by the attempt that raised it;
\* the call returns the first successful response or throws the error of
\* attempt number `retries`.
C7_GetLastSoldRetries ==
  gl_retries >= 1 =>
    /\ gl_requests = Len(gl_hist)
    /\ gl_requests <= gl_retries
    /\ \A i \in 1..Len(gl_hist) :
         LET h == gl_hist[i] IN
         /\ i < Len(gl_hist) =>
              /\ h.err.cls \in Retryable
              /\ h.resp.retryAfter # <<>> => h.wait = C7_StatedWait(h, i)
         /\ h.err.cls \notin Retryable => i = Len(gl_hist) /\ h.wait = NoWait
         /\ h.wait # NoWait => h.err.cls \in Retryable /\ i < gl_retries
    /\ gl_pc = "attempting" =>
         /\ gl_attempt = Len(gl_hist) + 1
         /\ \A i \in 1..Len(gl_hist) : gl_hist[i].wait # NoWait
    /\ gl_pc = "sleeping" =>
         Len(gl_hist) >= 1 /\ gl_hist[Len(gl_hist)].wait # NoWait
    /\ gl_pc = "thrown" =>
         /\ Len(gl_hist) >= 1
         /\ gl_hist[Len(gl_hist)].err # NoError
         /\ gl_hist[Len(gl_hist)].wait = NoWait
         /\ gl_thrown = gl_hist[Len(gl_hist)].err
         /\ gl_thrown.cls \in Retryable => Len(gl_hist) = gl_retries
    /\ gl_pc = "returned" =>
         /\ Len(gl_hist) >= 1
         /\ gl_hist[Len(gl_hist)].err = NoError
         /\ ok(gl_hist[Len(gl_hist)].resp)
         /\ \A i \in 1..(Len(gl_hist) - 1) : gl_hist[i].err # NoError

\* a call with retries = 3 that waited 20 s after a 429 with Retry-After "20",
\* 4 s after a 500 on attempt 2, and threw the 429 of attempt 3
C7_Witness ==
  /\ gl_pc = "thrown"
  /\ gl_retries = 3
  /\ Len(gl_hist) = 3
  /\ gl_hist[1].resp.retryAfter = <<2, 0>> /\ gl_hist[1].wait = 20000
  /\ gl_hist[2].err.cls = "ServerError" /\ gl_hist[2].wait = 4000
  /\ gl_thrown.cls = "RateLimitError"

\* ---------------------------------------------------------------- claim C8

\* C8: exponentialBackoff(fn, maxRetries) of error-handling.md invokes fn at
\* most maxRetries times; it invokes fn again only after a ServerError or a
\* RateLimitError; any other error is rethrown by the invocation that raised
\* it, with no wait and no further invocation; the error of invocation number
\* maxRetries is rethrown; the value of the first successful invocation is
\* returned.
C8_BackoffInvocations ==
  (eb_variant = "error-handling" /\ eb_max >= 1) =>
    /\ eb_calls = Len(eb_hist)
    /\ eb_calls <= eb_max
    /\ \A i \in 1..Len(eb_hist) :
         LET h == eb_hist[i] IN
         /\ i < Len(eb_hist) => h.err.cls \in Retryable /\ h.wait # NoWait
         /\ h.err.cls \notin Retryable =>
              /\ i = Len(eb_hist)
              /\ h.wait = NoWait
              /\ eb_pc = (IF h.err = NoError THEN "returned" ELSE "thrown")
         /\ (i = eb_max /\ h.err # NoError) => h.wait = NoWait /\ eb_pc = "thrown"
    /\ (Len(eb_hist) >= 1 /\ eb_hist[1].err.cls \notin Retryable) => eb_calls = 1
    /\ eb_pc = "calling" => eb_attempt = Len(eb_hist) + 1
    /\ eb_pc = "thrown" =>
         /\ Len(eb_hist) >= 1
         /\ eb_hist[Len(eb_hist)].err # NoError
         /\ eb_thrown = eb_hist[Len(eb_hist)].err
         /\ eb_thrown.cls \in Retryable => Len(eb_hist) = eb_max
    /\ eb_pc = "returned" =>
         /\ Len(eb_hist) >= 1
         /\ eb_hist[Len(eb_hist)].err = NoError
         /\ \A i \in 1..(Len(eb_hist) - 1) : eb_hist[i].err # NoError

\* a call with maxRetries = 3 whose fn failed with a ServerError, then a
\* RateLimitError, then a ServerError that was rethrown
C8_Witness ==
  /\ eb_variant = "error-handling"
  /\ eb_pc = "thrown"
  /\ eb_max = 3
  /\ eb_calls = 3
  /\ eb_hist[1].err.cls = "ServerError"
  /\ eb_hist[2].err.cls = "RateLimitError"
  /\ eb_thrown.cls = "ServerError"

\* ---------------------------------------------------------------- claim C9

\* min(1000 * 2^(k-1), 30000), written without the model's operators
C9_StatedWait(k) == IF 1000 * 2^(k - 1) < 30000 THEN 1000 * 2^(k - 1) ELSE 30000

\* the error of a failed attempt is one that the running version retries
C9_Retried(e) ==
  IF eb_variant = "error-handling" THEN e.cls \in Retryable ELSE e.status = 429

\* C9: in both documented versions of exponentialBackoff the wait after failed
\* attempt k (1 <= k < maxRetries) is min(1000 * 2^(k-1), 30000) ms: the waits
\* start at 1000 ms, double from one attempt to the next up to the cap, never
\* decrease and never exceed 30000 ms.
C9_BackoffWaits ==
  \A k \in 1..Len(eb_hist) :
    LET h == eb_hist[k] IN
    /\ (h.err # NoError /\ C9_Retried(h.err) /\ k < eb_max) => h.wait # NoWait
    /\ h.wait # NoWait =>
         /\ k < eb_max
         /\ h.wait = C9_StatedWait(k)
         /\ h.wait <= 30000
         /\ k = 1 => h.wait = 1000
         /\ k > 1 =>
              /\ eb_hist[k - 1].wait # NoWait
              /\ h.wait >= eb_hist[k - 1].wait
              /\ h.wait = 2 * eb_hist[k - 1].wait \/ h.wait = 30000

\* a call that has waited 16000 ms after attempt 5 and 30000 ms after attempt 6
C9_Witness ==
  /\ Len(eb_hist) >= 6
  /\ eb_hist[5].wait = 16000
  /\ eb_hist[6].wait = 30000
  /\ eb_pc = "waiting"

\* --------------------------------------------------------------- claim C10

\* C10: an execute(fn) made while the breaker is OPEN and the time is before
\* nextAttempt throws 'Circuit breaker is OPEN' without invoking fn and leaves
\* state, failureCount and nextAttempt as they were.
C10_OpenRejects ==
  [][ (cb_state = "OPEN" /\ now < cb_nextAttempt /\ cb_executes' = cb_executes + 1)
        => /\ cb_calls'[cb_executes'] = "rejected"
           /\ cb_fnCalls' = cb_fnCalls
           /\ cb_state' = cb_state
           /\ cb_failureCount' = cb_failureCount
           /\ cb_nextAttempt' = cb_nextAttempt ]_vars

\* the latest execute call was rejected by a breaker that is still OPEN and
\* still before nextAttempt, after fn had been invoked and had failed
C10_Witness ==
  /\ cb_executes >= 2
  /\ cb_calls[cb_executes] = "rejected"
  /\ cb_calls[1] = "thrown"
  /\ cb_state = "OPEN"
  /\ now < cb_nextAttempt
  /\ cb_fnCalls = cb_executes - 1

\* --------------------------------------------------------------- claim C11

\* the failures of fn since its last success, among execute calls 1..n
\* (a rejected call does not reach fn; a call in flight has no outcome yet)
RECURSIVE C11_FailureRun(_)
C11_FailureRun(n) ==
  IF n = 0 THEN 0
  ELSE IF cb_calls[n] = "thrown" THEN 1 + C11_FailureRun(n - 1)
  ELSE IF cb_calls[n] = "returned" THEN 0
  ELSE C11_FailureRun(n - 1)

\* C11: with execute calls run one at a time and failureThreshold >= 1, the
\* breaker is OPEN exactly when failureThreshold or more failures have
\* occurred with no success between them; in CLOSED failureCount is below
\* failureThreshold, in OPEN it is not; a successful call leaves failureCount
\* 0 and state CLOSED.
C11_OpensAtThreshold ==
  (cb_state # "none" /\ cb_threshold >= 1) =>
    /\ cb_failureCount = C11_FailureRun(cb_executes)
    /\ cb_state = "CLOSED" => cb_failureCount < cb_threshold
    /\ cb_state = "OPEN" => cb_failureCount >= cb_threshold
    /\ (\A id \in 1..MaxExecutes : cb_calls[id] # "inflight") =>
         /\ cb_state \in {"CLOSED", "OPEN"}
         /\ cb_state = "OPEN" <=> C11_FailureRun(cb_executes) >= cb_threshold
    /\ (cb_executes >= 1 /\ cb_calls[cb_executes] = "returned") =>
         cb_failureCount = 0 /\ cb_state = "CLOSED"

\* a breaker with failureThreshold 2 that stayed CLOSED after one failure,
\* was reset by a success, and opened on the second of two failures in a row
C11_Witness ==
  /\ cb_threshold = 2
  /\ cb_calls = <<"thrown", "returned", "thrown", "thrown">>
  /\ cb_state = "OPEN"
  /\ cb_failureCount = 2

\* --------------------------------------------------------------- claim C15

\* C15: with execute calls run one at a time, an execute made on an OPEN
\* breaker at or after nextAttempt moves it to HALF_OPEN and invokes fn; when
\* that trial call fails the breaker is OPEN again with nextAttempt = now +
\* timeout, and when it succeeds the breaker is CLOSED with failureCount 0.
C15_TrialCall ==
  /\ [][ (cb_state = "OPEN" /\ now >= cb_nextAttempt
            /\ cb_executes' = cb_executes + 1)
          => /\ cb_state' = "HALF_OPEN"
             /\ cb_fnCalls' = cb_fnCalls + 1
             /\ cb_calls'[cb_executes'] = "inflight" ]_vars
  /\ [][ (cb_state = "HALF_OPEN" /\ cb_calls'[cb_executes] = "thrown"
            /\ cb_calls[cb_executes] = "inflight")
          => /\ cb_state' = "OPEN"
             /\ cb_nextAttempt' = now + cb_timeout ]_vars
  /\ [][ (cb_state = "HALF_OPEN" /\ cb_calls'[cb_executes] = "returned"
            /\ cb_calls[cb_executes] = "inflight")
          => /\ cb_state' = "CLOSED"
             /\ cb_failureCount' = 0 ]_vars

\* a trial call that failed and reopened the breaker, followed after the new
\* nextAttempt by a trial call that succeeded and closed it
C15_Witness ==
  /\ cb_calls = <<"thrown", "thrown", "returned", "unused">>
  /\ cb_threshold = 1
  /\ cb_state = "CLOSED"
  /\ cb_failureCount = 0
  /\ cb_fnCalls = 3

\* --------------------------------------------------------------- claim C16

\* C16: for any interleaving of execute calls, an OPEN breaker leaves OPEN
\* only through an execute call that starts at or after nextAttempt, and the
\* completion of a call while the breaker is OPEN changes neither state nor
\* failureCount.
C16_OpenLeftOnlyByTrial ==
  /\ [][ (cb_state = "OPEN" /\ cb_state' # "OPEN")
          => (cb_executes' = cb_executes + 1 /\ now >= cb_nextAttempt) ]_vars
  /\ [][ (cb_state = "OPEN" /\ cb_executes' = cb_executes
            /\ cb_calls' # cb_calls)
          => (cb_state' = cb_state /\ cb_failureCount' = cb_failureCount) ]_vars

\* --------------------------------------------------------------- claim C17

\* the execute calls whose fn has been invoked and has not settled
C17_InFlight == {id \in 1..MaxExecutes : cb_calls[id] = "inflight"}

\* C17: while the breaker is HALF_OPEN at most one call of fn is in flight,
\* and an execute made while it is HALF_OPEN is not passed through to fn.
C17_SingleTrial ==
  /\ [](cb_state = "HALF_OPEN" => Cardinality(C17_InFlight) <= 1)
  /\ [][ (cb_state = "HALF_OPEN" /\ cb_executes' = cb_executes + 1)
          => cb_fnCalls' = cb_fnCalls ]_vars

\* --------------------------------------------------------------- claim C12

\* C12: get(key) returns the data of the latest set(key, data) when at most
\* ttl ms have passed since that set; otherwise it returns null and leaves no
\* entry for the key; it never returns data stored more than ttl ms earlier,
\* and after clear() a get returns null until the key is set again.
C12_GetWithinTtl ==
  rc_last.op = "get" =>
    LET stored == rc_stored[rc_last.key]
        age == rc_last.at - stored.timestamp
    IN IF stored.present /\ age <= rc_ttl
         THEN /\ rc_last.result = stored.data
              /\ rc_cache[rc_last.key].present
              /\ rc_cache[rc_last.key].data = stored.data
         ELSE /\ rc_last.result = "null"
              /\ ~rc_cache[rc_last.key].present

\* with ttl 1000 ms, a get made 1500 ms after the latest set of its key
\* returned null and removed the entry
C12_Witness ==
  /\ rc_ttl = 1000
  /\ rc_last.op = "get"
  /\ rc_stored[rc_last.key].present
  /\ rc_last.at - rc_stored[rc_last.key].timestamp = 1500
  /\ rc_last.result = "null"
  /\ ~rc_cache[rc_last.key].present

\* --------------------------------------------------------------- claim C13

\* the wait C13 states after a 429, in ms: error.retryAfter seconds, 60 when
\* the error has no retryAfter
C13_StatedWait(e) == (IF e.retryAfter = -1 THEN 60 ELSE e.retryAfter) * 1000

\* C13: makeRequest(fn) invokes fn at most twice; a second invocation follows
\* only a first one that failed with status 429, after a wait of
\* error.retryAfter seconds (60 when retryAfter is absent); the second
\* invocation's result is returned or its error thrown; an error with any
\* other status is rethrown after one invocation.
C13_RetryOnceAfter429 ==
  /\ Len(rl_hist) <= 2
  /\ Len(rl_hist) >= 1 =>
       /\ rl_hist[1].out.status = 429 =>
            rl_hist[1].wait = C13_StatedWait(rl_hist[1].out)
       /\ rl_hist[1].out.status # 429 =>
            /\ Len(rl_hist) = 1
            /\ rl_hist[1].wait = -1
            /\ rl_pc = (IF rl_hist[1].out.status = 200
                          THEN "returned" ELSE "thrown")
  /\ Len(rl_hist) = 2 =>
       /\ rl_hist[1].out.status = 429
       /\ rl_hist[2].wait = -1
       /\ rl_pc = (IF rl_hist[2].out.status = 200 THEN "returned" ELSE "thrown")
  /\ rl_pc \in {"waiting", "second"} =>
       Len(rl_hist) = 1 /\ rl_hist[1].out.status = 429
  /\ rl_pc = "thrown" => rl_thrown = rl_hist[Len(rl_hist)].out

\* --------------------------------------------------------------- claim C14

\* C14: for every non-2xx status the service returns on every attempt, and
\* every n, getLastSold (retries = n) and get_last_sold (max_retries = n)
\* send the same number of requests.
C14_SameRequestCount ==
  (pa_js.pc = "thrown" /\ pa_py.pc = "thrown") =>
    pa_js.requests = pa_py.requests

\* --------------------------------------------------------------- claim C18

\* C18: for any interleaving of getCachedPrice calls, a call that starts
\* while another call for the same key is still fetching issues no request
\* (at most one request per key is outstanding), and a call that finds an
\* unexpired entry issues none.
C18_OneRequestPerWindow ==
  /\ [](\A k \in CacheKeys :
          Cardinality({id \in 1..MaxPriceCalls :
                         gp_calls[id] = [pc |-> "fetching", key |-> k]}) <= 1)
  /\ [][ \A k \in CacheKeys :
           (gp_requests'[k] = gp_requests[k] + 1) =>
             ~(rc_cache[k].present
                 /\ rc_now - rc_cache[k].timestamp <= rc_ttl) ]_vars

\* --------------------------------------------------------------- claim C19

\* C19: at most one requestFn is executing at any time, and the requestFns
\* are started in the order of their add calls, whenever the add calls are
\* made.
C19_OneAtATimeInOrder ==
  /\ Cardinality({i \in 1..MaxAdds : rq_req[i] = "executing"}) <= 1
  /\ \A n \in 1..Len(rq_started) : rq_started[n] = n
  /\ \A i \in 1..MaxAdds :
       rq_req[i] \in {"executing", "resolved", "rejected"} =>
         \E n \in 1..Len(rq_started) : rq_started[n] = i

\* request 3, added while request 1 was executing, is executing after
\* requests 1 and 2 with request 4 queued behind it
C19_Witness ==
  /\ rq_started = <<1, 2, 3>>
  /\ rq_req[1] = "rejected"
  /\ rq_req[2] = "resolved"
  /\ rq_req[3] = "executing"
  /\ rq_req[4] = "queued"
  /\ rq_queue = <<4>>

\* --------------------------------------------------------------- claim C20

\* C20: when every requestFn settles, every promise returned by add is
\* eventually settled, with the result of its own requestFn if that resolved
\* and with its error if it rejected.
C20_EveryPromiseSettles ==
  /\ [](\A i \in 1..MaxAdds :
          /\ rq_promise[i].state = "fulfilled" =>
               rq_promise[i].of = i /\ rq_req[i] = "resolved"
          /\ rq_promise[i].state = "rejected" =>
               rq_promise[i].of = i /\ rq_req[i] = "rejected"
          /\ rq_req[i] \in {"resolved", "rejected"} =>
               rq_promise[i].state # "pending")
  /\ \A i \in 1..MaxAdds :
       (rq_promise[i].state = "pending")
         ~> (rq_promise[i].state \in {"fulfilled", "rejected"})

\* four promises are settled, each by its own requestFn: the second request,
\* queued behind one that rejected, resolved; the loop has finished
C20_Witness ==
  /\ rq_added = 4
  /\ rq_started = <<1, 2, 3, 4>>
  /\ rq_promise[1].state = "rejected"
  /\ rq_promise[2].state = "fulfilled"
  /\ rq_promise[3].state = "fulfilled"
  /\ rq_promise[4].state = "rejected"
  /\ rq_pc = "idle"
  /\ ~rq_processing

\* --------------------------------------------------------------- claim C21

\* C21: every requestFn but the first is started at least
\* 1000 / requestsPerSecond milliseconds after the previous requestFn
\* settled, and no more than requestsPerSecond requestFns are started within
\* any one second, also when the queue ran empty in between.
C21_SpacedStarts ==
  /\ \A k \in 2..Len(tq_starts) :
       (tq_starts[k] - tq_ends[k - 1]) * tq_rps >= 1000
  /\ \A i \in 1..Len(tq_starts) : \A j \in i..Len(tq_starts) :
       tq_starts[j] - tq_starts[i] < 1000 => j - i + 1 <= tq_rps

\* --------------------------------------------------------------- claim C22

\* C22: checkAndAlert sends an alert only in a call whose usage exceeds the
\* threshold, and between two calls that sent an alert there is a call,
\* later than the first of them, that observed usage below 0.5.
C22_AlertOncePerExcursion ==
  /\ \A j \in 1..Len(ra_calls) :
       ra_calls[j].alert =>
         usageAbove(ra_calls[j].remaining, ra_calls[j].limit, ra_threshold)
  /\ \A i \in 1..Len(ra_calls) : \A j \in (i + 1)..Len(ra_calls) :
       ra_calls[i].alert /\ ra_calls[j].alert =>
         \E k \in (i + 1)..j :
           usageBelowHalf(ra_calls[k].remaining, ra_calls[k].limit)

\* --------------------------------------------------------------- claim C23

\* the tickers of this.sockets and of this.priceCallbacks
C23_socketTickers == {t \in Tickers : td_sockets[t] # NoSocket}
C23_callbackTickers == {t \in Tickers : td_priceCallbacks[t] # NoCallback}

\* the sockets of a ticker on which the dashboard has not called close()
C23_liveSockets(t) ==
  {s \in 1..Len(td_sock) :
     td_sock[s].ticker = t /\ td_sock[s].state \in {"connecting", "open"}}

C23_MapsAgree ==
  /\ C23_socketTickers = C23_callbackTickers
  /\ \A t \in Tickers :
       /\ Cardinality(C23_liveSockets(t)) <= 1
       /\ td_sockets[t] # NoSocket =>
            /\ td_sockets[t] \in 1..Len(td_sock)
            /\ td_sock[td_sockets[t]].ticker = t
            /\ C23_liveSockets(t) \subseteq {td_sockets[t]}

C23_ResubscribeStep ==
  td_ops' = td_ops + 1 /\ td_last'.op = "subscribeTo" /\ td_last'.had =>
    /\ td_sockets' = td_sockets
    /\ td_sock' = td_sock
    /\ td_priceCallbacks'[td_last'.ticker] # NoCallback
    /\ \A t \in Tickers \ {td_last'.ticker} :
         td_priceCallbacks'[t] = td_priceCallbacks[t]

\* C23: after any sequence of subscribeTo, unsubscribeFrom and disconnect
\* calls the sockets map and the priceCallbacks map hold the same tickers,
\* every ticker has at most one socket that has not been closed, which is
\* the one of the map, and a subscribeTo for a ticker that has a socket
\* opens no socket and changes only that ticker's callback.
C23_OneSocketPerTicker == []C23_MapsAgree /\ [][C23_ResubscribeStep]_vars

\* AAPL was subscribed twice and MSFT once, then AAPL was unsubscribed while
\* its socket was open: one socket is closing, MSFT's is still in both maps
C23_Witness ==
  /\ Len(td_sock) = 2
  /\ td_ops = 4
  /\ td_sock[1] = [ticker |-> "AAPL", state |-> "closing", unsubscribed |-> TRUE]
  /\ td_sock[2].ticker = "MSFT"
  /\ td_sockets = [t \in Tickers |-> IF t = "MSFT" THEN 2 ELSE NoSocket]
  /\ td_priceCallbacks["MSFT"] = "cb2"

\* --------------------------------------------------------------- claim C24

\* C24: once unsubscribeFrom(ticker) was called for a ticker that had a
\* socket, whatever that socket's state, the socket has been closed, neither
\* map keeps an entry for the ticker, and no price update arriving on that
\* socket afterwards calls a callback.
C24_ClosedAfterUnsubscribe ==
  /\ td_last.op = "unsubscribeFrom" /\ td_last.had =>
       /\ td_sock[td_last.socket].state \in {"closing", "closed"}
       /\ td_sockets[td_last.ticker] = NoSocket
       /\ td_priceCallbacks[td_last.ticker] = NoCallback
  /\ \A n \in 1..Len(td_invoked) : ~td_invoked[n].unsubscribed

\* --------------------------------------------------------------- claim C25

\* C25: every alert registered with addAlert has its callback called at
\* most once, is in the alerts map exactly as long as it has not fired, and
\* has fired by the end of the first price update of its ticker that meets
\* its condition (currentPrice >= targetPrice for 'above', <= for 'below').
C25_FiresOnce ==
  \A n \in 1..Len(al_regs) :
    /\ al_regs[n].fired <= 1
    /\ al_regs[n].fired = 0 <=> al_alerts[al_regs[n].alertId] = n
    /\ ~al_regs[n].missed

\* --------------------------------------------------------------- claim C26

\* C26: an alert's callback is called only for a price update of the
\* alert's own ticker.
C26_OwnTickerOnly ==
  \A n \in 1..Len(al_regs) :
    al_regs[n].fired > 0 => al_regs[n].firedTicker = al_regs[n].ticker

\* --------------------------------------------------------------- claim C27

\* C27: every socket whose effect has been cleaned up has been closed, at
\* most one socket of the hook is connecting or open, and no handler of a
\* socket calls setPrice or setStatus after the cleanup of its effect.
C27_CleanupClosesSocket ==
  /\ \A s \in 1..Len(hk_sock) :
       hk_sock[s].cleaned => hk_sock[s].state \in {"closing", "closed"}
  /\ Cardinality({s \in 1..Len(hk_sock) :
                    hk_sock[s].state \in {"connecting", "open"}}) <= 1
  /\ hk_stale = <<>>

\* --------------------------------------------------------------- claim C28

\* C28: reconnect() is called at most once for each connection that was
\* lost, also when both an error event and an abnormal close event were
\* delivered for it, and not at all for a connection that was closed with
\* code 1000 and had no error event.
C28_OneReconnectPerLoss ==
  \A c \in 1..Len(rn_conn) :
    /\ rn_conn[c].reconnects <= 1
    /\ rn_conn[c].close = "1000" /\ ~rn_conn[c].error =>
         rn_conn[c].reconnects = 0

\* --------------------------------------------------------------- claim C29

\* C29: the requests are called one at a time in array order, each one at
\* least delayMs after the previous one settled, whether that one resolved
\* or rejected; the call returns, and then results has one entry per
\* request, null for the requests that rejected.
C29_DelayBetweenRequests ==
  /\ \A k \in 1..Len(rr_log) : rr_log[k].request = k
  /\ \A k \in 2..Len(rr_log) :
       rr_log[k].start >= rr_log[k - 1].end + rr_delayMs
  /\ rr_pc = "returned" =>
       /\ Len(rr_results) = rr_count
       /\ Len(rr_log) = rr_count
       /\ \A k \in 1..rr_count :
            rr_results[k] = "null" <=> ~rr_log[k].ok

\* --------------------------------------------------------------- claim C30

C30_Holdings ==
  /\ ag_cash >= 0
  /\ \A t \in Tickers :
       IF ag_portfolio[t].held
       THEN ag_portfolio[t].shares > 0 /\ ag_portfolio[t].shares % 100 = 0
       ELSE ag_portfolio[t].shares = 0

\* the step bought 100 shares of ticker t at price p
C30_Bought(t, p) ==
  /\ ag_cash > 100 * p
  /\ ag_cash' = ag_cash - 100 * p
  /\ ag_portfolio'[t].held
  /\ ag_portfolio'[t].shares = ag_portfolio[t].shares + 100
  /\ \A u \in Tickers \ {t} : ag_portfolio'[u] = ag_portfolio[u]

\* the step sold the whole position of ticker t at price p
C30_Sold(t, p) ==
  /\ ag_portfolio[t].shares > 0
  /\ ag_cash' = ag_cash + ag_portfolio[t].shares * p
  /\ ~ag_portfolio'[t].held
  /\ \A u \in Tickers \ {t} : ag_portfolio'[u] = ag_portfolio[u]

C30_Step ==
  \/ ag_pc = "idle"
  \/ ag_cash' = ag_cash /\ ag_portfolio' = ag_portfolio
  \/ /\ ag_last'.kind = "trade"
     /\ ag_steps' = ag_steps + 1
     /\ \/ /\ ag_last'.analysis.recommendation = "buy"
           /\ C30_Bought(ag_last'.ticker, ag_last'.analysis.currentPrice)
        \/ /\ ag_last'.analysis.recommendation = "sell"
           /\ C30_Sold(ag_last'.ticker, ag_last'.analysis.currentPrice)

\* C30: after every step of runAutonomousTrading cash is not negative and
\* every position of the portfolio is a positive multiple of 100 shares; a
\* step changes cash or the portfolio only by a buy, made with cash >
\* 100 * currentPrice and taking exactly that amount for 100 shares, or by
\* a sell of a ticker with shares > 0, which adds shares * currentPrice to
\* cash and removes the position.
C30_CashAndPositions == []C30_Holdings /\ [][C30_Step]_vars

\* MSFT is held, bought at 30, 2000 were lost on positions sold since, and
\* the last step did not buy AAPL at 50 with cash equal to the cost of 100
\* shares
C30_Witness ==
  /\ ag_cash = 5000
  /\ ag_portfolio["MSFT"] = [held |-> TRUE, shares |-> 100, basis |-> 3000]
  /\ ag_portfolio["AAPL"] = NoPosition
  /\ ag_last = [kind |-> "trade", ticker |-> "AAPL",
                analysis |-> [recommendation |-> "buy", currentPrice |-> 50]]

====
